---- MODULE Spec2Model ----
(***************************************************************************)
(* Data-mesh orchestration workflows of the analytics reference            *)
(* architecture: the Step Functions state machines declared by the CDK     *)
(* constructs DataDomainWorkflow (Domain Intake), CentralGovernance        *)
(* (Governance), DataDomainCrawler (Metadata Refresh) and the EventBridge  *)
(* resources declared by DataDomainRegistration (Registration Handshake).  *)
(*                                                                         *)
(* JSON objects are functions from field names to values, the empty object *)
(* is the empty function, JSON arrays are sequences.  Every Amazon States  *)
(* Language state is one action; a Map state is an entry action, the       *)
(* actions of its iterator (one instance per item) and a join action.      *)
(***************************************************************************)
EXTENDS Integers, Sequences, FiniteSets, TLC

(***************************************************************************)
(* Bounds of the model.                                                    *)
(***************************************************************************)
MaxInvitations == 2
MaxTables == 2
MaxIntakeExecs == 2
MaxRegistrations == 4
MaxGovExecs == 2
MaxPolls == 3

MaxRefreshTables == 3

MaxRoutingRegistrations == 2
MaxInboundEvents == 3

(***************************************************************************)
(* Finite input domains.                                                   *)
(***************************************************************************)
CentralAccId == "111"
AwsAccountId == "222"
Accounts == {"111", "222", "333"}
TableNames == {"t1", "t2"}
DatabaseNames == {"db"}
InvitationStatuses == {"PENDING", "ACCEPTED", "REJECTED"}
AcceptResponseStatuses == {"ACCEPTED", "PENDING"}

SeqUpTo(S, n) == UNION {[1..k -> S] : k \in 0..n}

(***************************************************************************)
(* JSON helpers: field presence, ResultPath merge, States.Format.          *)
(***************************************************************************)
EmptyObject == <<>>

IsPresent(o, f) == f \in DOMAIN o

ResultPath(o, f, v) == [k \in (DOMAIN o) \cup {f} |-> IF k = f THEN v ELSE o[k]]

Format2(a, b) == a \o "_" \o b

VARIABLES
    \* ---- Domain Intake Workflow (DataDomainWorkflow.crossAccStateMachine)
    ramInvitations,   \* RAM service: the resource share invitations of the account
    resourceLinks,    \* Glue catalog of the account: the resource links
    iStatus,          \* execution status
    iError,           \* error name of a failed execution
    iState,           \* current state of the state machine
    iData,            \* JSON input of the current state
    iInMap,           \* a Map state is running its iterations
    iBranch,          \* iterations of the running Map state
    iExecs,           \* executions started so far
    iInput,           \* input of the execution (the triggering event)
    iListed,          \* history: what GetResourceShareInvitations returned
    iAcceptCalls,     \* history: invitation ARNs passed to acceptResourceShareInvitation
    iAcceptResp,      \* history: ARN -> status in the accept response
    iAccepted,        \* history: ARNs that went PENDING -> ACCEPTED in this execution
    iLinkCalls,       \* history: TableInput of every glue createTable call
    \* ---- Registration Handshake (DataDomainRegistration), central account
    centralBusPolicy, \* resource policy of the central event bus: its statements
    centralBusRules,  \* rules of the central event bus, by registered data domain
    regCalls,         \* history: props of every DataDomainRegistration deployed
    \* ---- Governance Workflow (CentralGovernance.RegisterDataProduct)
    lfResources,      \* Lake Formation: registered data locations
    lfGrants,         \* Lake Formation: granted permissions
    glueDatabases,    \* Glue catalog: database name -> owner metadata parameters
    glueTables,       \* Glue catalog: tables as (database name, table name)
    centralEvents,    \* events put on the central event bus
    gStatus,          \* execution status
    gError,           \* error name of a failed execution
    gState,           \* current state of the state machine
    gData,            \* JSON input of the current state
    gInMap,           \* the Map state is running its iterations
    gBranch,          \* iterations of the running Map state
    gDoneOrder,       \* iterations in the order in which they completed
    gExecs,           \* executions started so far
    gInput,           \* input of the execution (the data product registration)
    gSucceeded,       \* history: inputs of the executions that succeeded before
    gDbResult,        \* history: outcome of the createDatabase call
    gTableResult,     \* history: iteration -> outcome of its createTable call
    gEmitted,         \* history: events put by this execution
    \* ---- Metadata Refresh Workflow (DataDomainCrawler.UpdateTableSchemas)
    crawlers,         \* Glue: crawler name -> crawler state
    lfTableGrants,    \* Lake Formation of the data domain: table grants
    rStatus,          \* execution status
    rError,           \* error name of a failed execution
    rState,           \* current state of the state machine
    rData,            \* JSON input of the current state
    rInMap,           \* the Map state is running its iterations
    rBranch,          \* iterations of the Map state
    rPolls,           \* history: iteration -> crawler states reported by getCrawler
    rDeletes,         \* history: iteration -> number of deleteCrawler calls
    \* ---- a second, concurrent execution of the Domain Intake Workflow
    iParked,          \* the execution that is not taking the current step
    \* ---- a second, concurrent execution of the Metadata Refresh Workflow
    rExec,            \* id of the current execution, and the execution that is
                      \* not taking the current step
    \* ---- event routing between the central bus and the data domain buses
    domainBus,        \* events delivered to data domain buses, by bus ARN
    intakeStarts,     \* history: (domain, event) for which DataDomainRule fired
    routeLog,         \* history: per put event, the registrations at that time
    \* ---- trigger of the Metadata Refresh Workflow
    rTrigger,         \* the status change event that started the execution
    \* ---- the poll loops of DataDomainCrawler and DataProduct on one crawler
    pollRun           \* the states the crawler reports, and per construct the
                      \* polls made and the poll after which it deleted

intakeVars == <<ramInvitations, resourceLinks, iStatus, iError, iState, iData, iInMap,
                iBranch, iExecs, iInput, iListed, iAcceptCalls, iAcceptResp,
                iAccepted, iLinkCalls>>

regVars == <<centralBusPolicy, centralBusRules, regCalls>>

govVars == <<lfResources, lfGrants, glueDatabases, glueTables, centralEvents, gStatus,
             gError, gState, gData, gInMap, gBranch, gDoneOrder, gExecs, gInput,
             gSucceeded, gDbResult, gTableResult, gEmitted>>

refreshVars == <<crawlers, lfTableGrants, rStatus, rError, rState, rData, rInMap,
                 rBranch, rPolls, rDeletes>>

concVars == <<iParked, rExec>>

routeVars == <<domainBus, intakeStarts, routeLog>>

trigVars == <<rTrigger, pollRun>>

vars == <<intakeVars, regVars, govVars, refreshVars, concVars, routeVars, trigVars>>

(***************************************************************************)
(* States before anything was deployed or started.                         *)
(***************************************************************************)
RegistrationIdle ==
    /\ centralBusPolicy = <<>>
    /\ centralBusRules = <<>>
    /\ regCalls = <<>>

GovernanceIdle ==
    /\ lfResources = {}
    /\ lfGrants = {}
    /\ glueDatabases = <<>>
    /\ glueTables = {}
    /\ centralEvents = <<>>
    /\ gStatus = "IDLE"
    /\ gError = "none"
    /\ gState = "none"
    /\ gData = EmptyObject
    /\ gInMap = FALSE
    /\ gBranch = <<>>
    /\ gDoneOrder = <<>>
    /\ gExecs = 0
    /\ gInput = EmptyObject
    /\ gSucceeded = {}
    /\ gDbResult = "none"
    /\ gTableResult = <<>>
    /\ gEmitted = <<>>


RoutingIdle ==
    /\ domainBus = {}
    /\ intakeStarts = {}
    /\ routeLog = <<>>

\* An execution slot of the Metadata Refresh Workflow in which no execution
\* was started; id is $$.Execution.Id of the execution that will run in it.
IdleRefreshExecution(id) ==
    [id |-> id, status |-> "IDLE", error |-> "none", state |-> "none",
     data |-> EmptyObject, inMap |-> FALSE, branch |-> <<>>, polls |-> <<>>,
     deletes |-> <<>>, trigger |-> EmptyObject]

\* The poll loops of the two constructs before their first poll of a crawler
\* that reports the given states.
PollRunOf(states) ==
    [states |-> states,
     crawler |-> [polls |-> 0, deletedAfter |-> 0],
     product |-> [polls |-> 0, deletedAfter |-> 0]]

\* No execution of the Metadata Refresh Workflow was started.
RefreshExecutionsIdle ==
    /\ rExec = [id |-> "exec-1", parked |-> IdleRefreshExecution("exec-2")]
    /\ rTrigger = EmptyObject
    /\ crawlers = <<>>
    /\ lfTableGrants = {}
    /\ rStatus = "IDLE"
    /\ rError = "none"
    /\ rState = "none"
    /\ rData = EmptyObject
    /\ rInMap = FALSE
    /\ rBranch = <<>>
    /\ rPolls = <<>>
    /\ rDeletes = <<>>

RefreshIdle ==
    /\ pollRun = PollRunOf(<<>>)
    /\ RefreshExecutionsIdle

(***************************************************************************)
(* Domain Intake Workflow                                                  *)
(***************************************************************************)
CreateResourceLinksDetailType(acc) == acc \o "_createResourceLinks"

\* Events that may arrive on the data domain event bus.
InboundEvents ==
    [source : {"com.central.stepfunction"},
     account : {CentralAccId},
     detailType : {CreateResourceLinksDetailType(AwsAccountId)},
     detail : [database_name : DatabaseNames,
               table_names : SeqUpTo(TableNames, MaxTables)]]

\* Faulty variant: the pattern does not filter on the account.
DataDomainRuleOf_bug(acc, ev) ==
    /\ ev.source = "com.central.stepfunction"
    /\ ev.detailType = CreateResourceLinksDetailType(acc)

\* Event pattern of DataDomainRule in the data domain account acc.
DataDomainRuleOf(acc, ev) ==
    /\ ev.source = "com.central.stepfunction"
    /\ ev.account = CentralAccId
    /\ ev.detailType = CreateResourceLinksDetailType(acc)

\* Event pattern of DataDomainRule.
DataDomainRule(ev) == DataDomainRuleOf(AwsAccountId, ev)

InvitationLists ==
    {l \in SeqUpTo([ResourceShareInvitationArn : 1..MaxInvitations,
                    SenderAccountId : {CentralAccId, "333"},
                    Status : InvitationStatuses], MaxInvitations) :
        \A i \in 1..Len(l) : l[i].ResourceShareInvitationArn = i}

\* An execution slot in which no execution was started.
IdleExecution ==
    [status |-> "IDLE", error |-> "none", state |-> "none", data |-> EmptyObject,
     inMap |-> FALSE, branch |-> <<>>, input |-> EmptyObject,
     listed |-> [returned |-> FALSE, list |-> <<>>], acceptCalls |-> <<>>,
     acceptResp |-> <<>>, accepted |-> {}, linkCalls |-> <<>>]

IntakeIdle ==
    /\ iParked = IdleExecution
    /\ iStatus = "IDLE"
    /\ iError = "none"
    /\ iState = "none"
    /\ iData = EmptyObject
    /\ iInMap = FALSE
    /\ iBranch = <<>>
    /\ iExecs = 0
    /\ iInput = EmptyObject
    /\ iListed = [returned |-> FALSE, list |-> <<>>]
    /\ iAcceptCalls = <<>>
    /\ iAcceptResp = <<>>
    /\ iAccepted = {}
    /\ iLinkCalls = <<>>

InitIntake ==
    /\ ramInvitations \in InvitationLists
    /\ resourceLinks = {}
    /\ IntakeIdle
    /\ RegistrationIdle
    /\ GovernanceIdle
    /\ RefreshIdle
    /\ RoutingIdle

\* Faulty variant: the error of a call is recorded and the execution goes on.
IntakeFail_bug(err) ==
    /\ iStatus' = iStatus
    /\ iError' = err

\* An error that no catch takes fails the execution.
IntakeFail(err) ==
    /\ iStatus' = "FAILED"
    /\ iError' = err

\* rule.addTarget(new targets.SfnStateMachine(crossAccStateMachine))
StartIntake(ev) ==
    /\ UNCHANGED <<regVars, govVars, refreshVars, concVars, routeVars, trigVars>>
    /\ iStatus \in {"IDLE", "SUCCEEDED", "FAILED"}
    /\ iExecs < MaxIntakeExecs
    /\ DataDomainRule(ev)
    /\ iStatus' = "RUNNING"
    /\ iError' = "none"
    /\ iState' = "GetResourceShareInvitations"
    /\ iData' = ev
    /\ iInput' = ev
    /\ iInMap' = FALSE
    /\ iBranch' = <<>>
    /\ iExecs' = iExecs + 1
    /\ iListed' = [returned |-> FALSE, list |-> <<>>]
    /\ iAcceptCalls' = <<>>
    /\ iAcceptResp' = <<>>
    /\ iAccepted' = {}
    /\ iLinkCalls' = <<>>
    /\ UNCHANGED <<ramInvitations, resourceLinks>>

\* ram:getResourceShareInvitations, parameters {}, resultPath $.taskresult
getRamInvitations ==
    /\ UNCHANGED <<regVars, govVars, refreshVars, concVars, routeVars, trigVars>>
    /\ iStatus = "RUNNING"
    /\ iState = "GetResourceShareInvitations"
    /\ \/ /\ iData' = ResultPath(iData, "taskresult",
                                 [ResourceShareInvitations |-> ramInvitations])
          /\ iListed' = [returned |-> TRUE, list |-> ramInvitations]
          /\ iState' = "resourceShareInvitationsEmpty"
          /\ UNCHANGED <<iStatus, iError>>
       \/ /\ IntakeFail("States.TaskFailed")
          /\ UNCHANGED <<iData, iListed, iState>>
    /\ UNCHANGED <<ramInvitations, resourceLinks, iInMap, iBranch, iExecs, iInput,
                   iAcceptCalls, iAcceptResp, iAccepted, iLinkCalls>>

\* Faulty variant: the choice always enters the fan-out.
InvitationsPresent_bug(data) == TRUE

\* Condition.isPresent('$.taskresult.ResourceShareInvitations[0]')
InvitationsPresent(data) == Len(data.taskresult.ResourceShareInvitations) >= 1

resourceShareInvitationsEmpty ==
    /\ UNCHANGED <<regVars, govVars, refreshVars, concVars, routeVars, trigVars>>
    /\ iStatus = "RUNNING"
    /\ iState = "resourceShareInvitationsEmpty"
    /\ iState' = IF InvitationsPresent(iData) THEN "forEachRamInvitation"
                                              ELSE "finishWorkflow"
    /\ UNCHANGED <<ramInvitations, resourceLinks, iStatus, iError, iData, iInMap,
                   iBranch, iExecs, iInput, iListed, iAcceptCalls, iAcceptResp,
                   iAccepted, iLinkCalls>>

\* Faulty variant: central_account_id is taken from the invitation itself.
RamMapItem_bug(data, i) ==
    [ram_share |-> data.taskresult.ResourceShareInvitations[i],
     central_account_id |-> data.taskresult.ResourceShareInvitations[i].SenderAccountId,
     central_database_name |-> Format2(data.account, data.detail.database_name),
     database_name |-> data.detail.database_name,
     table_names |-> data.detail.table_names]

\* Map 'forEachRamInvitation': itemsPath and parameters
RamMapItem(data, i) ==
    [ram_share |-> data.taskresult.ResourceShareInvitations[i],
     central_account_id |-> data.account,
     central_database_name |-> Format2(data.account, data.detail.database_name),
     database_name |-> data.detail.database_name,
     table_names |-> data.detail.table_names]

ramMapTask ==
    /\ UNCHANGED <<regVars, govVars, refreshVars, concVars, routeVars, trigVars>>
    /\ iStatus = "RUNNING"
    /\ iState = "forEachRamInvitation"
    /\ ~iInMap
    /\ iInMap' = TRUE
    /\ iBranch' = [i \in 1..Len(iData.taskresult.ResourceShareInvitations) |->
                      [state |-> "isInvitationPending", data |-> RamMapItem(iData, i)]]
    /\ UNCHANGED <<ramInvitations, resourceLinks, iStatus, iError, iState, iData,
                   iExecs, iInput, iListed, iAcceptCalls, iAcceptResp, iAccepted,
                   iLinkCalls>>

\* Faulty variant: the sender of the invitation is not compared.
InvitationPendingFromCentral_bug(item) == item.ram_share.Status = "PENDING"

\* Choice 'isInvitationPending'
InvitationPendingFromCentral(item) ==
    /\ item.ram_share.SenderAccountId = item.central_account_id
    /\ item.ram_share.Status = "PENDING"

isInvitationPending(i) ==
    /\ UNCHANGED <<regVars, govVars, refreshVars, concVars, routeVars, trigVars>>
    /\ iStatus = "RUNNING"
    /\ iState = "forEachRamInvitation"
    /\ iInMap
    /\ i \in DOMAIN iBranch
    /\ iBranch[i].state = "isInvitationPending"
    /\ iBranch' = [iBranch EXCEPT ![i].state =
                      IF InvitationPendingFromCentral(iBranch[i].data)
                      THEN "AcceptResourceShareInvitation" ELSE "notPendingPass"]
    /\ UNCHANGED <<ramInvitations, resourceLinks, iStatus, iError, iState, iData,
                   iInMap, iExecs, iInput, iListed, iAcceptCalls, iAcceptResp,
                   iAccepted, iLinkCalls>>

\* Error of ram:acceptResourceShareInvitation: an invitation that is no longer
\* PENDING cannot be accepted, any other failure is an error of the call.
AcceptError(status) ==
    IF status = "ACCEPTED" THEN "Ram.ResourceShareInvitationAlreadyAcceptedException"
    ELSE IF status = "REJECTED"
         THEN "Ram.ResourceShareInvitationAlreadyRejectedException"
         ELSE "States.TaskFailed"

\* ram:acceptResourceShareInvitation, resultSelector Status, resultPath $.Response
acceptRamShare(i) ==
    /\ UNCHANGED <<regVars, govVars, refreshVars, concVars, routeVars, trigVars>>
    /\ iStatus = "RUNNING"
    /\ iState = "forEachRamInvitation"
    /\ iInMap
    /\ i \in DOMAIN iBranch
    /\ iBranch[i].state = "AcceptResourceShareInvitation"
    /\ LET arn == iBranch[i].data.ram_share.ResourceShareInvitationArn IN
       /\ iAcceptCalls' = Append(iAcceptCalls, arn)
       /\ \/ /\ ramInvitations[arn].Status = "PENDING"
             /\ \E st \in AcceptResponseStatuses :
                   /\ ramInvitations' = [ramInvitations EXCEPT ![arn].Status = st]
                   /\ iAcceptResp' = ResultPath(iAcceptResp, arn, st)
                   /\ iAccepted' = IF st = "ACCEPTED" THEN iAccepted \cup {arn}
                                                      ELSE iAccepted
                   /\ iBranch' = [iBranch EXCEPT
                         ![i].state = "done",
                         ![i].data = ResultPath(iBranch[i].data, "Response",
                                                [Status |-> st])]
             /\ UNCHANGED <<iStatus, iError>>
          \/ /\ IntakeFail(AcceptError(ramInvitations[arn].Status))
             /\ UNCHANGED <<ramInvitations, iAcceptResp, iAccepted, iBranch>>
    /\ UNCHANGED <<resourceLinks, iState, iData, iInMap, iExecs, iInput, iListed,
                   iLinkCalls>>

\* Pass 'notPendingPass', result {}
notPendingPass(i) ==
    /\ UNCHANGED <<regVars, govVars, refreshVars, concVars, routeVars, trigVars>>
    /\ iStatus = "RUNNING"
    /\ iState = "forEachRamInvitation"
    /\ iInMap
    /\ i \in DOMAIN iBranch
    /\ iBranch[i].state = "notPendingPass"
    /\ iBranch' = [iBranch EXCEPT ![i].state = "done", ![i].data = EmptyObject]
    /\ UNCHANGED <<ramInvitations, resourceLinks, iStatus, iError, iState, iData,
                   iInMap, iExecs, iInput, iListed, iAcceptCalls, iAcceptResp,
                   iAccepted, iLinkCalls>>

\* Faulty variant: the filtered results are handed on in reverse order.
RamMapOutput_bug(branches) ==
    LET map_result == [i \in DOMAIN branches |-> branches[i].data]
        HasCentralAccountId(o) == IsPresent(o, "central_account_id")
        kept == SelectSeq(map_result, HasCentralAccountId)
    IN  [k \in DOMAIN kept |-> kept[Len(kept) + 1 - k]]

\* Map 'forEachRamInvitation': resultPath $.map_result,
\* outputPath $.map_result.[?(@.central_account_id)]
RamMapOutput(branches) ==
    LET map_result == [i \in DOMAIN branches |-> branches[i].data]
        HasCentralAccountId(o) == IsPresent(o, "central_account_id")
    IN  SelectSeq(map_result, HasCentralAccountId)

ramMapTaskDone ==
    /\ UNCHANGED <<regVars, govVars, refreshVars, concVars, routeVars, trigVars>>
    /\ iStatus = "RUNNING"
    /\ iState = "forEachRamInvitation"
    /\ iInMap
    /\ \A i \in DOMAIN iBranch : iBranch[i].state = "done"
    /\ iData' = RamMapOutput(iBranch)
    /\ iState' = "shareAccepted"
    /\ iInMap' = FALSE
    /\ iBranch' = <<>>
    /\ UNCHANGED <<ramInvitations, resourceLinks, iStatus, iError, iExecs, iInput,
                   iListed, iAcceptCalls, iAcceptResp, iAccepted, iLinkCalls>>

\* Faulty variant: the status is compared with a value RAM never returns.
ShareAcceptedCondition_bug(arr) ==
    /\ Len(arr) >= 1
    /\ arr[1].Response.Status = "ACCEPT"

\* Choice 'shareAccepted': isPresent('$[0]') and $[0].Response.Status = ACCEPTED
ShareAcceptedCondition(arr) ==
    /\ Len(arr) >= 1
    /\ arr[1].Response.Status = "ACCEPTED"

\* Choice 'shareAccepted' with outputPath '$[0]': the path has no match in an
\* empty array and the state fails with States.Runtime.
shareAccepted ==
    /\ UNCHANGED <<regVars, govVars, refreshVars, concVars, routeVars, trigVars>>
    /\ iStatus = "RUNNING"
    /\ iState = "shareAccepted"
    /\ IF Len(iData) >= 1
       THEN /\ iData' = iData[1]
            /\ iState' = IF ShareAcceptedCondition(iData) THEN "forEachTable"
                                                          ELSE "finishWorkflow"
            /\ UNCHANGED <<iStatus, iError>>
       ELSE /\ IntakeFail("States.Runtime")
            /\ UNCHANGED <<iData, iState>>
    /\ UNCHANGED <<ramInvitations, resourceLinks, iInMap, iBranch, iExecs, iInput,
                   iListed, iAcceptCalls, iAcceptResp, iAccepted, iLinkCalls>>

\* Map 'forEachTable': itemsPath $.table_names and parameters
RlMapItem(data, j) ==
    [central_database_name |-> data.central_database_name,
     database_name |-> data.database_name,
     table_name |-> data.table_names[j]]

rlMapTask ==
    /\ UNCHANGED <<regVars, govVars, refreshVars, concVars, routeVars, trigVars>>
    /\ iStatus = "RUNNING"
    /\ iState = "forEachTable"
    /\ ~iInMap
    /\ iInMap' = TRUE
    /\ iBranch' = [j \in 1..Len(iData.table_names) |->
                      [state |-> "createResourceLink", data |-> RlMapItem(iData, j)]]
    /\ UNCHANGED <<ramInvitations, resourceLinks, iStatus, iError, iState, iData,
                   iExecs, iInput, iListed, iAcceptCalls, iAcceptResp, iAccepted,
                   iLinkCalls>>

\* Faulty variant: the link is named like the table it points at.
RlName_bug(table_name) == table_name

\* States.Format('rl-{}', $.table_name)
RlName(table_name) == "rl-" \o table_name

\* parameters of the glue:createTable call of 'createResourceLink'
ResourceLinkParameters(item) ==
    [DatabaseName |-> item.database_name,
     TableInput |->
        [Name |-> RlName(item.table_name),
         TargetTable |-> [CatalogId |-> CentralAccId,
                          DatabaseName |-> item.central_database_name,
                          Name |-> item.table_name]]]

LinkExists(links, p) ==
    \E l \in links : /\ l.DatabaseName = p.DatabaseName
                     /\ l.TableInput.Name = p.TableInput.Name

\* Faulty variant: the task recovers from 'already exists'.
CreateResourceLinkCatches_bug(err) == err = "Glue.AlreadyExistsException"

\* createResourceLink has no addCatch.
CreateResourceLinkCatches(err) == FALSE

\* glue:createTable, resultPath DISCARD, no catch
createResourceLink(j) ==
    /\ UNCHANGED <<regVars, govVars, refreshVars, concVars, routeVars, trigVars>>
    /\ iStatus = "RUNNING"
    /\ iState = "forEachTable"
    /\ iInMap
    /\ j \in DOMAIN iBranch
    /\ iBranch[j].state = "createResourceLink"
    /\ LET p == ResourceLinkParameters(iBranch[j].data) IN
       /\ iLinkCalls' = Append(iLinkCalls, p)
       /\ \/ /\ ~LinkExists(resourceLinks, p)
             /\ resourceLinks' = resourceLinks \cup {p}
             /\ iBranch' = [iBranch EXCEPT ![j].state = "done"]
             /\ UNCHANGED <<iStatus, iError>>
          \/ /\ LinkExists(resourceLinks, p)
             /\ IF CreateResourceLinkCatches("Glue.AlreadyExistsException")
                THEN /\ iBranch' = [iBranch EXCEPT ![j].state = "done"]
                     /\ UNCHANGED <<iStatus, iError>>
                ELSE /\ IntakeFail("Glue.AlreadyExistsException")
                     /\ UNCHANGED iBranch
             /\ UNCHANGED resourceLinks
          \/ /\ ~LinkExists(resourceLinks, p)
             /\ IntakeFail("States.TaskFailed")
             /\ UNCHANGED <<resourceLinks, iBranch>>
    /\ UNCHANGED <<ramInvitations, iState, iData, iInMap, iExecs, iInput, iListed,
                   iAcceptCalls, iAcceptResp, iAccepted>>

\* Map 'forEachTable': resultPath DISCARD, next finishWorkflow
rlMapTaskDone ==
    /\ UNCHANGED <<regVars, govVars, refreshVars, concVars, routeVars, trigVars>>
    /\ iStatus = "RUNNING"
    /\ iState = "forEachTable"
    /\ iInMap
    /\ \A j \in DOMAIN iBranch : iBranch[j].state = "done"
    /\ iState' = "finishWorkflow"
    /\ iInMap' = FALSE
    /\ iBranch' = <<>>
    /\ UNCHANGED <<ramInvitations, resourceLinks, iStatus, iError, iData, iExecs,
                   iInput, iListed, iAcceptCalls, iAcceptResp, iAccepted, iLinkCalls>>

\* Pass 'finishWorkflow', end state
finishWorkflow ==
    /\ UNCHANGED <<regVars, govVars, refreshVars, concVars, routeVars, trigVars>>
    /\ iStatus = "RUNNING"
    /\ iState = "finishWorkflow"
    /\ iStatus' = "SUCCEEDED"
    /\ UNCHANGED <<ramInvitations, resourceLinks, iError, iState, iData, iInMap,
                   iBranch, iExecs, iInput, iListed, iAcceptCalls, iAcceptResp,
                   iAccepted, iLinkCalls>>

NextIntake ==
    \/ \E ev \in InboundEvents : StartIntake(ev)
    \/ getRamInvitations
    \/ resourceShareInvitationsEmpty
    \/ ramMapTask
    \/ \E i \in 1..MaxInvitations : isInvitationPending(i)
    \/ \E i \in 1..MaxInvitations : acceptRamShare(i)
    \/ \E i \in 1..MaxInvitations : notPendingPass(i)
    \/ ramMapTaskDone
    \/ shareAccepted
    \/ rlMapTask
    \/ \E j \in 1..MaxTables : createResourceLink(j)
    \/ rlMapTaskDone
    \/ finishWorkflow

SpecIntake == InitIntake /\ [][NextIntake]_vars

(***************************************************************************)
(* Duplicate delivery: the rule starts an execution per delivered event,   *)
(* and Step Functions runs the executions of a state machine concurrently. *)
(* The steps above are those of the current execution; SwitchExecution     *)
(* makes the other execution the current one.  The executions share only   *)
(* RAM and the Glue catalog, so they are interleaved at their service      *)
(* calls: a Choice, Pass or Map transition reads and writes nothing but    *)
(* the data of its own execution.                                          *)
(***************************************************************************)
CurrentExecution ==
    [status |-> iStatus, error |-> iError, state |-> iState, data |-> iData,
     inMap |-> iInMap, branch |-> iBranch, input |-> iInput, listed |-> iListed,
     acceptCalls |-> iAcceptCalls, acceptResp |-> iAcceptResp,
     accepted |-> iAccepted, linkCalls |-> iLinkCalls]

\* The current execution can take a transition that calls no service.
LocalTransitionEnabled ==
    /\ iStatus = "RUNNING"
    /\ \/ iState \in {"resourceShareInvitationsEmpty", "shareAccepted", "finishWorkflow"}
       \/ iState \in {"forEachRamInvitation", "forEachTable"} /\ ~iInMap
       \/ iInMap /\ \A i \in DOMAIN iBranch : iBranch[i].state = "done"
       \/ iInMap /\ \E i \in DOMAIN iBranch :
                        iBranch[i].state \in {"isInvitationPending", "notPendingPass"}

SwitchExecution ==
    /\ UNCHANGED <<regVars, govVars, refreshVars, routeVars, trigVars>>
    /\ iStatus = "RUNNING" \/ iParked.status = "RUNNING"
    /\ ~LocalTransitionEnabled
    /\ iParked' = CurrentExecution
    /\ iStatus' = iParked.status
    /\ iError' = iParked.error
    /\ iState' = iParked.state
    /\ iData' = iParked.data
    /\ iInMap' = iParked.inMap
    /\ iBranch' = iParked.branch
    /\ iInput' = iParked.input
    /\ iListed' = iParked.listed
    /\ iAcceptCalls' = iParked.acceptCalls
    /\ iAcceptResp' = iParked.acceptResp
    /\ iAccepted' = iParked.accepted
    /\ iLinkCalls' = iParked.linkCalls
    /\ UNCHANGED <<ramInvitations, resourceLinks, iExecs, rExec>>

\* Invitations of the account at the first delivery: pending shares of the
\* central account.
DuplicateInvitationLists ==
    {l \in InvitationLists :
        \A i \in 1..Len(l) : /\ l[i].SenderAccountId = CentralAccId
                              /\ l[i].Status = "PENDING"}

\* The delivered events: table lists t1, t2, t1, ... of at most MaxTables names.
DuplicateEvents ==
    {ev \in InboundEvents :
        \A k \in DOMAIN ev.detail.table_names :
            ev.detail.table_names[k] = IF k % 2 = 1 THEN "t1" ELSE "t2"}

\* The event bus delivers the event twice: the second execution is started
\* with the event of the first.
StartDuplicateIntake(ev) ==
    /\ iExecs < 2
    /\ \A earlier \in {iInput, iParked.input} \ {EmptyObject} : ev = earlier
    /\ StartIntake(ev)

NextIntakeDuplicate ==
    \/ \E ev \in DuplicateEvents : StartDuplicateIntake(ev)
    \/ SwitchExecution
    \/ getRamInvitations
    \/ resourceShareInvitationsEmpty
    \/ ramMapTask
    \/ \E i \in 1..MaxInvitations : isInvitationPending(i)
    \/ \E i \in 1..MaxInvitations : acceptRamShare(i)
    \/ \E i \in 1..MaxInvitations : notPendingPass(i)
    \/ ramMapTaskDone
    \/ shareAccepted
    \/ rlMapTask
    \/ \E j \in 1..MaxTables : createResourceLink(j)
    \/ rlMapTaskDone
    \/ finishWorkflow

InitIntakeDuplicate ==
    /\ ramInvitations \in DuplicateInvitationLists
    /\ resourceLinks = {}
    /\ IntakeIdle
    /\ RegistrationIdle
    /\ GovernanceIdle
    /\ RefreshIdle
    /\ RoutingIdle

SpecIntakeDuplicate == InitIntakeDuplicate /\ [][NextIntakeDuplicate]_vars


(***************************************************************************)
(* Properties of the Domain Intake Workflow                                *)
(***************************************************************************)
ListedEmpty == iListed.returned /\ iListed.list = <<>>

\* Listed invitations that are PENDING and sent by the origin of the trigger.
MatchingListed ==
    {i \in DOMAIN iListed.list :
        /\ iListed.list[i].SenderAccountId = iInput.account
        /\ iListed.list[i].Status = "PENDING"}

NoMatchingInvitation ==
    /\ iListed.returned
    /\ Len(iListed.list) >= 1
    /\ MatchingListed = {}

FirstInvitationAccepted ==
    /\ iListed.returned
    /\ Len(iListed.list) >= 1
    /\ IsPresent(iAcceptResp, iListed.list[1].ResourceShareInvitationArn)
    /\ iAcceptResp[iListed.list[1].ResourceShareInvitationArn] = "ACCEPTED"

\* C1: when list-invitations returned zero invitations the execution never
\* fails, goes from the emptiness choice straight to finishWorkflow, and calls
\* neither accept-invitation nor create-resource-link.
C1_EmptyListFinishes ==
    ListedEmpty =>
        /\ iStatus # "FAILED"
        /\ iStatus = "RUNNING" =>
              iState \in {"resourceShareInvitationsEmpty", "finishWorkflow"}
        /\ iAcceptCalls = <<>>
        /\ iLinkCalls = <<>>

C1_Witness == ListedEmpty /\ iStatus = "SUCCEEDED"

\* C2: when the list is non-empty and holds no PENDING invitation from the
\* origin domain, the execution does not fail and calls neither
\* accept-invitation nor create-resource-link.
C2_NoMatchFinishes ==
    NoMatchingInvitation =>
        /\ iStatus # "FAILED"
        /\ iAcceptCalls = <<>>
        /\ iLinkCalls = <<>>

\* C3: when the first listed invitation was accepted with response status
\* ACCEPTED and the execution succeeded, create-resource-link was called exactly
\* once per entry of the event's table list and every link is named 'rl-' + table.
C3_LinksExactlyTables ==
    (iStatus = "SUCCEEDED" /\ FirstInvitationAccepted) =>
        /\ Len(iLinkCalls) = Len(iInput.detail.table_names)
        /\ \A t \in TableNames :
              Cardinality({k \in DOMAIN iLinkCalls :
                              iLinkCalls[k].TableInput.Name = "rl-" \o t})
              = Cardinality({k \in DOMAIN iInput.detail.table_names :
                              iInput.detail.table_names[k] = t})
        /\ \A k \in DOMAIN iLinkCalls :
              iLinkCalls[k].TableInput.Name
                 = "rl-" \o iLinkCalls[k].TableInput.TargetTable.Name

C3_Witness ==
    /\ iStatus = "SUCCEEDED"
    /\ FirstInvitationAccepted
    /\ Len(iLinkCalls) = 2

\* C8 (as claimed): per sender at most one invitation goes PENDING -> ACCEPTED
\* within one execution.
C8_AtMostOneAcceptedPerSender ==
    \A s \in Accounts :
        Cardinality({a \in iAccepted : ramInvitations[a].SenderAccountId = s}) <= 1

\* C8 (amended): only listed invitations that are PENDING and sent by the origin
\* domain go PENDING -> ACCEPTED in an execution, accept is called at most once
\* per invitation, and at most one invitation is accepted when the list holds at
\* most one PENDING invitation of that sender.
C8_OnlyMatchingAcceptedOnce ==
    /\ iAccepted \subseteq
          {iListed.list[i].ResourceShareInvitationArn : i \in MatchingListed}
    /\ \A k, l \in DOMAIN iAcceptCalls : iAcceptCalls[k] = iAcceptCalls[l] => k = l
    /\ Cardinality(MatchingListed) <= 1 => Cardinality(iAccepted) <= 1

C8_Witness == Cardinality(iAccepted) >= 2

\* The two executions of the duplicate delivery.
Executions == {CurrentExecution, iParked}

AllAcceptsAccepted(e) ==
    \A a \in DOMAIN e.acceptResp : e.acceptResp[a] = "ACCEPTED"

\* Resource links of the catalog that point at the shared table t of the event.
LinksOfTable(ev, t) ==
    {l \in resourceLinks :
        /\ l.DatabaseName = ev.detail.database_name
        /\ l.TableInput.TargetTable =
              [CatalogId |-> CentralAccId,
               DatabaseName |-> Format2(ev.account, ev.detail.database_name),
               Name |-> t]}

\* C14: when the same trigger event was processed by two executions, one
\* after the other or concurrently, both have ended, an invitation was
\* accepted and no external call failed for a reason of its own, the catalog
\* holds the resource links that a single processing of the event leaves: one
\* for every table of the event.
C14_DuplicateDeliveryIdempotent ==
    (/\ iParked.input = iInput
     /\ \A e \in Executions :
           /\ e.status \in {"SUCCEEDED", "FAILED"}
           /\ e.error # "States.TaskFailed"
           /\ AllAcceptsAccepted(e)
     /\ \E e \in Executions : e.accepted # {})
        => \A k \in DOMAIN iInput.detail.table_names :
              LinksOfTable(iInput, iInput.detail.table_names[k]) # {}

\* Shared tables of the central catalog that a resource link points at.
LinkTargets == {l.TableInput.TargetTable : l \in resourceLinks}

MatchingArns == {iListed.list[i].ResourceShareInvitationArn : i \in MatchingListed}

\* C21: accept-invitation is called only for listed invitations whose sender
\* is the origin of the triggering event and whose status is PENDING; every
\* other listed invitation is in RAM as it was listed, whatever the execution
\* did.
C21_AcceptOnlyMatching ==
    /\ \A k \in DOMAIN iAcceptCalls : iAcceptCalls[k] \in MatchingArns
    /\ \A i \in (DOMAIN iListed.list) \ MatchingListed :
          ramInvitations[iListed.list[i].ResourceShareInvitationArn] = iListed.list[i]

C21_Witness ==
    /\ iStatus = "SUCCEEDED"
    /\ Len(iListed.list) = 2
    /\ iListed.list[1].SenderAccountId = "333"
    /\ iListed.list[1].Status = "PENDING"
    /\ iAcceptCalls = <<2>>
    /\ ramInvitations[1] = iListed.list[1]
    /\ ramInvitations[2].Status = "ACCEPTED"

\* The first listed invitation that is PENDING and sent by the origin: the
\* first iteration whose result the outputPath filter of the Map keeps.
FirstMatchingArn ==
    iListed.list[CHOOSE i \in MatchingListed :
                     \A j \in MatchingListed : i <= j].ResourceShareInvitationArn

\* The execution listed invitations and went through the choice 'shareAccepted'.
PastGate ==
    /\ iListed.returned
    /\ Len(iListed.list) >= 1
    /\ iState \in {"forEachTable", "finishWorkflow"}

\* C22 (as claimed): resource links are created only when the first listed
\* invitation was accepted with response status ACCEPTED.
C22_GateOnFirstListed ==
    /\ iLinkCalls # <<>> => FirstInvitationAccepted
    /\ PastGate /\ iState = "forEachTable" => FirstInvitationAccepted

\* C22 (amended): the gate reads the result of the first listed invitation
\* that is PENDING and sent by the origin, the first branch that called
\* accept: links are created if and only if the response status of that
\* branch is ACCEPTED, otherwise the execution goes to finishWorkflow without
\* a link, whatever the other branches returned; when no branch called accept
\* the gate is not passed and the execution fails with States.Runtime.
C22_GateOnFirstAccepting ==
    /\ PastGate =>
          /\ MatchingListed # {}
          /\ iData.ram_share.ResourceShareInvitationArn = FirstMatchingArn
          /\ IsPresent(iAcceptResp, FirstMatchingArn)
          /\ iData.Response.Status = iAcceptResp[FirstMatchingArn]
          /\ iState = "forEachTable" => iData.Response.Status = "ACCEPTED"
          /\ iData.Response.Status # "ACCEPTED" =>
                iState = "finishWorkflow" /\ iLinkCalls = <<>>
          /\ (iState = "finishWorkflow" /\ iData.Response.Status = "ACCEPTED") =>
                Len(iLinkCalls) = Len(iInput.detail.table_names)
    /\ iLinkCalls # <<>> => PastGate
    /\ iError = "States.Runtime" =>
          iListed.returned /\ Len(iListed.list) >= 1 /\ MatchingListed = {}

C22_Witness ==
    /\ iStatus = "SUCCEEDED"
    /\ Len(iListed.list) = 2
    /\ iListed.list[1].SenderAccountId = "333"
    /\ iListed.list[1].Status = "PENDING"
    /\ ~FirstInvitationAccepted
    /\ FirstMatchingArn = 2
    /\ Len(iLinkCalls) = 2

(***************************************************************************)
(* Registration Handshake                                                  *)
(***************************************************************************)
Regions == {"eu-west-1", "us-east-1"}

RegistrationProps == [dataDomainRegion : Regions, dataDomainAccId : {"222", "333"}]

DataDomainBusArn(props) ==
    "arn:aws:events:" \o props.dataDomainRegion \o ":" \o props.dataDomainAccId
        \o ":event-bus/" \o props.dataDomainAccId \o "_dataDomainEventBus"

\* Faulty variant: the statement id also depends on the region of the domain.
StatementId_bug(props) ==
    "AllowDataDomainAccToPutEvents_" \o props.dataDomainAccId
        \o "_" \o props.dataDomainRegion

\* Faulty variant: one statement id for every data domain.
StatementId_fixed(props) == "AllowCentralAccountToPutEvents"

\* statementId of the CfnEventBusPolicy 'Policy'
StatementId(props) == "AllowDataDomainAccToPutEvents_" \o props.dataDomainAccId

\* CfnEventBusPolicy 'Policy' (events:PutPermission): the statement with the same
\* statement id is replaced, a statement with a new id is added.
PutPermission(policy, stmt) ==
    IF \E k \in DOMAIN policy : policy[k].Sid = stmt.Sid
    THEN [k \in DOMAIN policy |-> IF policy[k].Sid = stmt.Sid THEN stmt ELSE policy[k]]
    ELSE Append(policy, stmt)

\* Rule 'Rule' of the construct deployed for a data domain, with its target.
PutRule(rules, rule) ==
    IF \E k \in DOMAIN rules : rules[k].dataDomainAccId = rule.dataDomainAccId
    THEN [k \in DOMAIN rules |->
             IF rules[k].dataDomainAccId = rule.dataDomainAccId THEN rule ELSE rules[k]]
    ELSE Append(rules, rule)

\* An event matches a pattern when every field of the pattern lists its value.
MatchesPattern(pattern, ev) == \A f \in DOMAIN pattern : ev[f] \in pattern[f]

\* Faulty variant: the pattern of the rule does not filter on the detail type.
RegistrationRule_bug(props) ==
    [dataDomainAccId |-> props.dataDomainAccId,
     eventPattern |-> [source |-> {"com.central.stepfunction"}],
     target |-> DataDomainBusArn(props)]

\* Rule 'Rule': eventPattern {source, detailType}, target the data domain bus
RegistrationRule(props) ==
    [dataDomainAccId |-> props.dataDomainAccId,
     eventPattern |->
        [source |-> {"com.central.stepfunction"},
         detailType |-> {CreateResourceLinksDetailType(props.dataDomainAccId)}],
     target |-> DataDomainBusArn(props)]

\* The participant data domains, each deployed in its own account and region.
DataDomains == {"222", "333"}

DomainRegion(d) == IF d = "222" THEN "eu-west-1" ELSE "us-east-1"

\* ARN of the event bus '<account>_dataDomainEventBus' of data domain d.
DomainBusArn(d) ==
    DataDomainBusArn([dataDomainRegion |-> DomainRegion(d), dataDomainAccId |-> d])

\* Event bus ARNs that lie in the account of data domain d.
BusArnsOfAccount(d) ==
    {DataDomainBusArn([dataDomainRegion |-> r, dataDomainAccId |-> d]) : r \in Regions}

\* Faulty variant: an event is delivered to the bus of the domain its detail
\* type names, whether or not a rule forwards it.
RuleTargets_bug(rules, ev) ==
    {DomainBusArn(d) : d \in {x \in DataDomains :
                                ev.detailType = CreateResourceLinksDetailType(x)}}

\* Targets of the rules of the central event bus that match the event.
RuleTargets(rules, ev) ==
    {rules[k].target : k \in {n \in DOMAIN rules :
                                 MatchesPattern(rules[n].eventPattern, ev)}}

\* Data domains for which a registration is deployed.
RegisteredDomains == {regCalls[k].dataDomainAccId : k \in DOMAIN regCalls}

DataDomainRegistration(props) ==
    /\ UNCHANGED <<intakeVars, govVars, refreshVars, concVars, routeVars, trigVars>>
    /\ Len(regCalls) < MaxRegistrations
    /\ centralBusPolicy' =
          PutPermission(centralBusPolicy,
                        [Sid |-> StatementId(props),
                         Action |-> "events:PutEvents",
                         Principal |-> props.dataDomainAccId])
    /\ centralBusRules' =
          PutRule(centralBusRules, RegistrationRule(props))
    /\ regCalls' = Append(regCalls, props)

InitRegistration ==
    /\ ramInvitations = <<>>
    /\ resourceLinks = {}
    /\ IntakeIdle
    /\ RegistrationIdle
    /\ GovernanceIdle
    /\ RefreshIdle
    /\ RoutingIdle

NextRegistration == \E props \in RegistrationProps : DataDomainRegistration(props)

SpecRegistration == InitRegistration /\ [][NextRegistration]_vars

PermissionEntries(d) == {k \in DOMAIN centralBusPolicy : centralBusPolicy[k].Principal = d}

RegistrationsOf(d) == {k \in DOMAIN regCalls : regCalls[k].dataDomainAccId = d}

\* C7: however often the registration is deployed for a participant domain, the
\* policy of the central event bus holds exactly one permission entry for that
\* participant, and none for a domain that was never registered.
C7_OnePermissionEntry ==
    \A d \in Accounts :
        Cardinality(PermissionEntries(d)) = IF RegistrationsOf(d) = {} THEN 0 ELSE 1

C7_Witness ==
    \E d \in Accounts :
        /\ Cardinality(RegistrationsOf(d)) >= 2
        /\ \E k, l \in RegistrationsOf(d) :
              regCalls[k].dataDomainRegion # regCalls[l].dataDomainRegion
        /\ Cardinality(PermissionEntries(d)) = 1

(***************************************************************************)
(* Governance Workflow                                                     *)
(***************************************************************************)
LfAdminRoleArn == "lfAdminRole"

\* Inputs of RegisterDataProduct: the data product registrations.
GovernanceInputs ==
    [data_product_s3 : {"bucket/product"},
     producer_acc_id : {"222", "333"},
     database_name : DatabaseNames,
     tables : SeqUpTo([name : TableNames], MaxTables),
     product_owner_name : {"owner"},
     product_pii_flag : {"false"}]

\* States.Format('arn:aws:s3:::{}', $.data_product_s3)
S3Arn(data) == "arn:aws:s3:::" \o data.data_product_s3

\* Faulty variant: the bare requested database name.
CentralDatabaseName_bug(data) == data.database_name

\* States.Format('{}_{}', $.producer_acc_id, $.database_name)
CentralDatabaseName(data) == Format2(data.producer_acc_id, data.database_name)

GovFail(err) ==
    /\ gStatus' = "FAILED"
    /\ gError' = err

StartGovernance(input) ==
    /\ UNCHANGED <<intakeVars, regVars, refreshVars, concVars, routeVars, trigVars>>
    /\ gStatus \in {"IDLE", "SUCCEEDED", "FAILED"}
    /\ gExecs < MaxGovExecs
    /\ gStatus' = "RUNNING"
    /\ gError' = "none"
    /\ gState' = "registerS3Location"
    /\ gData' = input
    /\ gInput' = input
    /\ gInMap' = FALSE
    /\ gBranch' = <<>>
    /\ gDoneOrder' = <<>>
    /\ gExecs' = gExecs + 1
    /\ gSucceeded' = IF gStatus = "SUCCEEDED" THEN gSucceeded \cup {gInput}
                                              ELSE gSucceeded
    /\ gDbResult' = "none"
    /\ gTableResult' = <<>>
    /\ gEmitted' = <<>>
    /\ UNCHANGED <<lfResources, lfGrants, glueDatabases, glueTables, centralEvents>>

\* Faulty variant: the admin grant is followed by createDatabase.
GovernanceNext_bug(state) ==
    CASE state = "registerS3Location" -> "grantLfAdminAccess"
      [] state = "grantLfAdminAccess" -> "createDatabase"
      [] state = "grantProducerAccess" -> "createDatabase"
      [] state = "createDatabase" -> "updateDatabaseOwnerMetadata"
      [] state = "updateDatabaseOwnerMetadata" -> "forEachTable"
      [] state = "forEachTable" -> "triggerCreateResourceLinks"

\* Faulty variant: the recipient grant leads back to the admin grant.
GovernanceNext_loop(state) ==
    CASE state = "registerS3Location" -> "grantLfAdminAccess"
      [] state = "grantLfAdminAccess" -> "grantProducerAccess"
      [] state = "grantProducerAccess" -> "grantLfAdminAccess"
      [] state = "createDatabase" -> "updateDatabaseOwnerMetadata"
      [] state = "updateDatabaseOwnerMetadata" -> "forEachTable"
      [] state = "forEachTable" -> "triggerCreateResourceLinks"

\* Wiring of RegisterDataProduct: registerS3Location.next(grantLfAdminAccess),
\* grantLfAdminAccess.next(grantProducerAccess),
\* grantProducerAccess.next(createDatabase),
\* createDatabase.next(updateDatabaseOwnerMetadata).next(tablesMapTask),
\* tablesMapTask.next(triggerProducer)
GovernanceNext(state) ==
    CASE state = "registerS3Location" -> "grantLfAdminAccess"
      [] state = "grantLfAdminAccess" -> "grantProducerAccess"
      [] state = "grantProducerAccess" -> "createDatabase"
      [] state = "createDatabase" -> "updateDatabaseOwnerMetadata"
      [] state = "updateDatabaseOwnerMetadata" -> "forEachTable"
      [] state = "forEachTable" -> "triggerCreateResourceLinks"

\* Faulty variant: the catch of registerS3Location takes every error.
RegisterS3LocationCatches_bug(err) == TRUE

\* Faulty variant: registerS3Location without the catch.
RegisterS3LocationCatches_none(err) == FALSE

\* registerS3Location.addCatch(grantLfAdminAccess, errors, resultPath)
RegisterS3LocationCatches(err) == err = "LakeFormation.AlreadyExistsException"

\* Faulty variant: createDatabase without the catch.
CreateDatabaseCatches_bug(err) == FALSE

\* createDatabase.addCatch(tablesMapTask, errors, resultPath)
CreateDatabaseCatches(err) == err = "Glue.AlreadyExistsException"

\* createTable of CentralGovernance has no addCatch.
CreateTableCatches(err) == FALSE

\* addCatch(..., resultPath: "$.Exception")
CatchOutput(data, err) == ResultPath(data, "Exception", [Error |-> err])

\* lakeformation:registerResource, resultPath DISCARD
registerS3Location ==
    /\ UNCHANGED <<intakeVars, regVars, refreshVars, concVars, routeVars, trigVars>>
    /\ gStatus = "RUNNING"
    /\ gState = "registerS3Location"
    /\ \/ /\ S3Arn(gData) \notin lfResources
          /\ lfResources' = lfResources \cup {S3Arn(gData)}
          /\ gState' = GovernanceNext("registerS3Location")
          /\ UNCHANGED <<gStatus, gError, gData>>
       \/ /\ \E err \in {"LakeFormation.AlreadyExistsException", "States.TaskFailed"} :
                /\ err = "LakeFormation.AlreadyExistsException"
                      <=> S3Arn(gData) \in lfResources
                /\ IF RegisterS3LocationCatches(err)
                   THEN /\ gData' = CatchOutput(gData, err)
                        /\ gState' = "grantLfAdminAccess"
                        /\ UNCHANGED <<gStatus, gError>>
                   ELSE /\ GovFail(err)
                        /\ UNCHANGED <<gData, gState>>
          /\ UNCHANGED lfResources
    /\ UNCHANGED <<lfGrants, glueDatabases, glueTables, centralEvents, gInMap, gBranch,
                   gDoneOrder, gExecs, gInput, gSucceeded, gDbResult, gTableResult,
                   gEmitted>>

\* lakeformation:grantPermissions DATA_LOCATION_ACCESS to the LF admin role
grantLfAdminAccess ==
    /\ UNCHANGED <<intakeVars, regVars, refreshVars, concVars, routeVars, trigVars>>
    /\ gStatus = "RUNNING"
    /\ gState = "grantLfAdminAccess"
    /\ \/ /\ lfGrants' = lfGrants \cup
                {[Permissions |-> "DATA_LOCATION_ACCESS",
                  Principal |-> LfAdminRoleArn,
                  Resource |-> [DataLocation |-> S3Arn(gData)]]}
          /\ gState' = GovernanceNext("grantLfAdminAccess")
          /\ UNCHANGED <<gStatus, gError>>
       \/ /\ GovFail("States.TaskFailed")
          /\ UNCHANGED <<lfGrants, gState>>
    /\ UNCHANGED <<lfResources, glueDatabases, glueTables, centralEvents, gData, gInMap,
                   gBranch, gDoneOrder, gExecs, gInput, gSucceeded, gDbResult,
                   gTableResult, gEmitted>>

\* lakeformation:grantPermissions DATA_LOCATION_ACCESS to $.producer_acc_id
grantProducerAccess ==
    /\ UNCHANGED <<intakeVars, regVars, refreshVars, concVars, routeVars, trigVars>>
    /\ gStatus = "RUNNING"
    /\ gState = "grantProducerAccess"
    /\ \/ /\ lfGrants' = lfGrants \cup
                {[Permissions |-> "DATA_LOCATION_ACCESS",
                  Principal |-> gData.producer_acc_id,
                  Resource |-> [DataLocation |-> S3Arn(gData)]]}
          /\ gState' = GovernanceNext("grantProducerAccess")
          /\ UNCHANGED <<gStatus, gError>>
       \/ /\ GovFail("States.TaskFailed")
          /\ UNCHANGED <<lfGrants, gState>>
    /\ UNCHANGED <<lfResources, glueDatabases, glueTables, centralEvents, gData, gInMap,
                   gBranch, gDoneOrder, gExecs, gInput, gSucceeded, gDbResult,
                   gTableResult, gEmitted>>

\* Faulty variant: the catch of createDatabase leads to the owner update.
CreateDatabaseCatchNext_bug == "updateDatabaseOwnerMetadata"

\* createDatabase.addCatch(tablesMapTask, ...): the state the catch leads to
CreateDatabaseCatchNext == "forEachTable"

\* glue:createDatabase, resultPath DISCARD, catch Glue.AlreadyExistsException
createDatabase ==
    /\ UNCHANGED <<intakeVars, regVars, refreshVars, concVars, routeVars, trigVars>>
    /\ gStatus = "RUNNING"
    /\ gState = "createDatabase"
    /\ \/ /\ ~IsPresent(glueDatabases, CentralDatabaseName(gData))
          /\ glueDatabases' = ResultPath(glueDatabases, CentralDatabaseName(gData),
                                         [Parameters |-> EmptyObject])
          /\ gDbResult' = "ok"
          /\ gState' = GovernanceNext("createDatabase")
          /\ UNCHANGED <<gStatus, gError, gData>>
       \/ /\ \E err \in {"Glue.AlreadyExistsException", "States.TaskFailed"} :
                /\ err = "Glue.AlreadyExistsException"
                      <=> IsPresent(glueDatabases, CentralDatabaseName(gData))
                /\ gDbResult' = err
                /\ IF CreateDatabaseCatches(err)
                   THEN /\ gData' = CatchOutput(gData, err)
                        /\ gState' = CreateDatabaseCatchNext
                        /\ UNCHANGED <<gStatus, gError>>
                   ELSE /\ GovFail(err)
                        /\ UNCHANGED <<gData, gState>>
          /\ UNCHANGED glueDatabases
    /\ UNCHANGED <<lfResources, lfGrants, glueTables, centralEvents, gInMap, gBranch,
                   gDoneOrder, gExecs, gInput, gSucceeded, gTableResult, gEmitted>>

\* glue:updateDatabase with the owner metadata parameters, resultPath DISCARD
updateDatabaseOwnerMetadata ==
    /\ UNCHANGED <<intakeVars, regVars, refreshVars, concVars, routeVars, trigVars>>
    /\ gStatus = "RUNNING"
    /\ gState = "updateDatabaseOwnerMetadata"
    /\ \/ /\ glueDatabases' =
                ResultPath(glueDatabases, CentralDatabaseName(gData),
                           [Parameters |->
                               [data_owner |-> gData.producer_acc_id,
                                data_owner_name |-> gData.product_owner_name,
                                pii_flag |-> gData.product_pii_flag]])
          /\ gState' = GovernanceNext("updateDatabaseOwnerMetadata")
          /\ UNCHANGED <<gStatus, gError>>
       \/ /\ GovFail("States.TaskFailed")
          /\ UNCHANGED <<glueDatabases, gState>>
    /\ UNCHANGED <<lfResources, lfGrants, glueTables, centralEvents, gData, gInMap,
                   gBranch, gDoneOrder, gExecs, gInput, gSucceeded, gDbResult,
                   gTableResult, gEmitted>>

\* Map 'forEachTable': itemsPath $.tables and parameters
TablesMapItem(data, i) ==
    [producer_acc_id |-> data.producer_acc_id,
     database_name |-> data.database_name,
     tables |-> data.tables[i]]

tablesMapTask ==
    /\ UNCHANGED <<intakeVars, regVars, refreshVars, concVars, routeVars, trigVars>>
    /\ gStatus = "RUNNING"
    /\ gState = "forEachTable"
    /\ ~gInMap
    /\ gInMap' = TRUE
    /\ gBranch' = [i \in 1..Len(gData.tables) |->
                      [state |-> "createTable", data |-> TablesMapItem(gData, i)]]
    /\ UNCHANGED <<lfResources, lfGrants, glueDatabases, glueTables, centralEvents,
                   gStatus, gError, gState, gData, gDoneOrder, gExecs, gInput,
                   gSucceeded, gDbResult, gTableResult, gEmitted>>

\* Faulty variant: a failed create-table removes the tables created before.
CatalogAfterFailure_bug(tables) == {}

\* No state of the workflow deletes or revokes: a call that fails leaves the
\* catalog as the earlier states made it.
CatalogAfterFailure(tables) == tables

\* glue:createTable in the iterator, resultPath DISCARD
createTable(i) ==
    /\ UNCHANGED <<intakeVars, regVars, refreshVars, concVars, routeVars, trigVars>>
    /\ gStatus = "RUNNING"
    /\ gState = "forEachTable"
    /\ gInMap
    /\ i \in DOMAIN gBranch
    /\ gBranch[i].state = "createTable"
    /\ LET item == gBranch[i].data
           table == <<CentralDatabaseName(item), item.tables.name>>
       IN  \/ /\ table \notin glueTables
              /\ glueTables' = glueTables \cup {table}
              /\ gTableResult' = ResultPath(gTableResult, i, "ok")
              /\ gBranch' = [gBranch EXCEPT ![i].state = "grantTablePermissionsToProducer"]
              /\ UNCHANGED <<gStatus, gError>>
           \/ /\ \E err \in {"Glue.AlreadyExistsException", "States.TaskFailed"} :
                    /\ err = "Glue.AlreadyExistsException" <=> table \in glueTables
                    /\ gTableResult' = ResultPath(gTableResult, i, err)
                    /\ IF CreateTableCatches(err)
                       THEN /\ gBranch' = [gBranch EXCEPT
                                  ![i].state = "grantTablePermissionsToProducer",
                                  ![i].data = CatchOutput(item, err)]
                            /\ UNCHANGED <<gStatus, gError>>
                       ELSE /\ GovFail(err)
                            /\ UNCHANGED gBranch
              /\ glueTables' = CatalogAfterFailure(glueTables)
    /\ UNCHANGED <<lfResources, lfGrants, glueDatabases, centralEvents, gState, gData,
                   gInMap, gDoneOrder, gExecs, gInput, gSucceeded, gDbResult, gEmitted>>

\* lakeformation:grantPermissions ALL on the table to $.producer_acc_id,
\* resultPath DISCARD, outputPath $.tables.name
grantTablePermissions(i) ==
    /\ UNCHANGED <<intakeVars, regVars, refreshVars, concVars, routeVars, trigVars>>
    /\ gStatus = "RUNNING"
    /\ gState = "forEachTable"
    /\ gInMap
    /\ i \in DOMAIN gBranch
    /\ gBranch[i].state = "grantTablePermissionsToProducer"
    /\ LET item == gBranch[i].data IN
       \/ /\ lfGrants' = lfGrants \cup
                {[Permissions |-> "ALL",
                  Principal |-> item.producer_acc_id,
                  Resource |-> [Table |-> [DatabaseName |-> CentralDatabaseName(item),
                                           Name |-> item.tables.name]]]}
          /\ gBranch' = [gBranch EXCEPT ![i].state = "done",
                                        ![i].data = item.tables.name]
          /\ gDoneOrder' = Append(gDoneOrder, i)
          /\ UNCHANGED <<gStatus, gError>>
       \/ /\ GovFail("States.TaskFailed")
          /\ UNCHANGED <<lfGrants, gBranch, gDoneOrder>>
    /\ UNCHANGED <<lfResources, glueDatabases, glueTables, centralEvents, gState, gData,
                   gInMap, gExecs, gInput, gSucceeded, gDbResult, gTableResult,
                   gEmitted>>

\* Faulty variant: the results are collected in completion order.
TablesMapResult_bug(branches, doneOrder) ==
    [flatten |-> [k \in DOMAIN doneOrder |-> branches[doneOrder[k]].data]]

\* Map 'forEachTable': the outputs of the iterations in item order,
\* resultSelector { flatten: $[*] }
TablesMapResult(branches, doneOrder) ==
    [flatten |-> [i \in DOMAIN branches |-> branches[i].data]]

\* Map 'forEachTable': resultPath $.map_result, next triggerProducer
tablesMapTaskDone ==
    /\ UNCHANGED <<intakeVars, regVars, refreshVars, concVars, routeVars, trigVars>>
    /\ gStatus = "RUNNING"
    /\ gState = "forEachTable"
    /\ gInMap
    /\ \A i \in DOMAIN gBranch : gBranch[i].state = "done"
    /\ gData' = ResultPath(gData, "map_result", TablesMapResult(gBranch, gDoneOrder))
    /\ gState' = GovernanceNext("forEachTable")
    /\ gInMap' = FALSE
    /\ gBranch' = <<>>
    /\ UNCHANGED <<lfResources, lfGrants, glueDatabases, glueTables, centralEvents,
                   gStatus, gError, gDoneOrder, gExecs, gInput, gSucceeded, gDbResult,
                   gTableResult, gEmitted>>

\* Faulty variant: the detail type is built from the account of the workflow.
TriggerProducerEntry_bug(data) ==
    [source |-> "com.central.stepfunction",
     account |-> CentralAccId,
     detailType |-> CreateResourceLinksDetailType(CentralAccId),
     detail |-> [database_name |-> data.database_name,
                 table_names |-> data.map_result.flatten]]

\* entries of the EventBridgePutEvents task 'triggerCreateResourceLinks'
TriggerProducerEntry(data) ==
    [source |-> "com.central.stepfunction",
     account |-> CentralAccId,
     detailType |-> CreateResourceLinksDetailType(data.producer_acc_id),
     detail |-> [database_name |-> data.database_name,
                 table_names |-> data.map_result.flatten]]

\* events:putEvents on the central event bus, end state.  The bus hands the
\* event to the targets of the rules that match it when it is put.
triggerProducer ==
    /\ UNCHANGED <<intakeVars, regVars, refreshVars, concVars, trigVars>>
    /\ gStatus = "RUNNING"
    /\ gState = "triggerCreateResourceLinks"
    /\ \/ /\ centralEvents' = Append(centralEvents, TriggerProducerEntry(gData))
          /\ gEmitted' = Append(gEmitted, TriggerProducerEntry(gData))
          /\ gStatus' = "SUCCEEDED"
          /\ LET entry == TriggerProducerEntry(gData)
                 targets == RuleTargets(centralBusRules, entry)
             IN  /\ domainBus' = domainBus \cup
                                    {[bus |-> t, event |-> entry] : t \in targets}
                 /\ routeLog' = Append(routeLog,
                                       [event |-> entry,
                                        recipient |-> gData.producer_acc_id,
                                        registered |-> RegisteredDomains,
                                        delivered |-> targets])
          /\ UNCHANGED <<gError, intakeStarts>>
       \/ /\ GovFail("States.TaskFailed")
          /\ UNCHANGED <<centralEvents, gEmitted, routeVars>>
    /\ UNCHANGED <<lfResources, lfGrants, glueDatabases, glueTables, gState, gData,
                   gInMap, gBranch, gDoneOrder, gExecs, gInput, gSucceeded, gDbResult,
                   gTableResult>>

InitGovernance ==
    /\ ramInvitations = <<>>
    /\ resourceLinks = {}
    /\ IntakeIdle
    /\ RegistrationIdle
    /\ GovernanceIdle
    /\ RefreshIdle
    /\ RoutingIdle

NextGovernance ==
    \/ \E input \in GovernanceInputs : StartGovernance(input)
    \/ registerS3Location
    \/ grantLfAdminAccess
    \/ grantProducerAccess
    \/ createDatabase
    \/ updateDatabaseOwnerMetadata
    \/ tablesMapTask
    \/ \E i \in 1..MaxTables : createTable(i)
    \/ \E i \in 1..MaxTables : grantTablePermissions(i)
    \/ tablesMapTaskDone
    \/ triggerProducer

SpecGovernance == InitGovernance /\ [][NextGovernance]_vars

(***************************************************************************)
(* Properties of the Governance Workflow                                   *)
(***************************************************************************)
InputTableNames == [i \in DOMAIN gInput.tables |-> gInput.tables[i].name]

\* An identical registration completed successfully in an earlier execution.
Reexecution == gStatus # "IDLE" /\ gInput \in gSucceeded

\* C4: when create-database returned 'already exists' the execution has not
\* failed at that call: it is in the per-table fan-out (or past it), and every
\* field of the execution input still has its original value.
C4_DatabaseExistsReachesFanOut ==
    gDbResult = "Glue.AlreadyExistsException" =>
        /\ gState \in {"forEachTable", "triggerCreateResourceLinks"}
        /\ gError # "Glue.AlreadyExistsException" \/ gInMap
        /\ \A f \in DOMAIN gInput : IsPresent(gData, f) /\ gData[f] = gInput[f]

C4_Witness ==
    /\ gDbResult = "Glue.AlreadyExistsException"
    /\ gStatus = "RUNNING"
    /\ gInMap
    /\ Len(gBranch) = Len(gInput.tables)
    /\ Len(gBranch) >= 1

\* C5: the table list of the emitted completion event is the list of the input
\* table names in input order, whatever the completion order of the branches.
C5_EventTablesInInputOrder ==
    /\ \A k \in DOMAIN gEmitted : gEmitted[k].detail.table_names = InputTableNames
    /\ gState = "triggerCreateResourceLinks" =>
          gData.map_result.flatten = InputTableNames

C5_Witness ==
    /\ Len(gEmitted) = 1
    /\ gDoneOrder = <<2, 1>>
    /\ gInput.tables[1] # gInput.tables[2]

\* C9: a per-table branch whose create-table call returned 'already exists'
\* proceeds to GrantTablePermissions, and the execution does not fail with
\* that error.
C9_TableExistsProceeds ==
    \A i \in DOMAIN gTableResult :
        gTableResult[i] = "Glue.AlreadyExistsException" =>
            /\ gError # "Glue.AlreadyExistsException"
            /\ gInMap => gBranch[i].state \in {"grantTablePermissionsToProducer", "done"}

\* C10: an execution whose registration is identical to one that completed
\* successfully before ends succeeded, unless an external call fails with an
\* error other than 'already exists', and has then emitted the completion event
\* with the same database name and table list.
C10_ReexecutionSucceeds ==
    (Reexecution /\ gStatus \in {"SUCCEEDED", "FAILED"} /\ gError # "States.TaskFailed") =>
        /\ gStatus = "SUCCEEDED"
        /\ Len(gEmitted) = 1
        /\ gEmitted[1].detail = [database_name |-> gInput.database_name,
                                 table_names |-> InputTableNames]

\* Every per-table branch of the execution completed create-table and
\* grant-table-permissions.
AllBranchesCompleted ==
    /\ Len(gDoneOrder) = Len(gInput.tables)
    /\ \A i \in DOMAIN gInput.tables :
          /\ i \in DOMAIN gTableResult
          /\ gTableResult[i] = "ok"
          /\ \E k \in DOMAIN gDoneOrder : gDoneOrder[k] = i

\* C12: an execution emits the completion event at most once; it has emitted
\* it exactly when it succeeded, never when it failed or is still running; at
\* the emission every per-table branch had completed create-table and
\* grant-table-permissions and the fan-out was over; the detail type of the
\* event is '<recipient domain id>_createResourceLinks' and its payload carries
\* the requested database name and the table names.
C12_CompletionEventOnce ==
    /\ Len(gEmitted) <= 1
    /\ Len(gEmitted) = 1 <=> gStatus = "SUCCEEDED"
    /\ gStatus = "FAILED" => gEmitted = <<>>
    /\ \A k \in DOMAIN gEmitted :
          /\ AllBranchesCompleted
          /\ ~gInMap
          /\ gEmitted[k].detailType = gInput.producer_acc_id \o "_createResourceLinks"
          /\ gEmitted[k].detail = [database_name |-> gInput.database_name,
                                   table_names |-> InputTableNames]
          /\ \E n \in DOMAIN centralEvents : centralEvents[n] = gEmitted[k]

C12_Witness ==
    /\ gStatus = "SUCCEEDED"
    /\ Len(gEmitted) = 1
    /\ gDoneOrder = <<1, 2>>
    /\ gInput.producer_acc_id = "333"

\* Errors for which the workflow declares a catch.
RecoveredErrors == {"LakeFormation.AlreadyExistsException", "Glue.AlreadyExistsException"}

\* C13: an error other than 'already exists' returned by register-location,
\* a grant call, create-database, update-database or create-table is never
\* recovered: the execution is failed, has emitted no completion event, and
\* from the failed state no catalog, permission or event call changes
\* anything.
C13_OtherErrorsFail ==
    /\ [](/\ gDbResult = "States.TaskFailed" =>
                 gStatus = "FAILED" /\ gState = "createDatabase"
          /\ \A i \in DOMAIN gTableResult :
                 gTableResult[i] = "States.TaskFailed" => gStatus = "FAILED"
          /\ IsPresent(gData, "Exception") => gData.Exception.Error \in RecoveredErrors
          /\ gError = "States.TaskFailed" => gStatus = "FAILED"
          /\ gStatus = "FAILED" => gEmitted = <<>> /\ gError # "none")
    /\ [][gStatus = "FAILED" =>
             UNCHANGED <<lfResources, lfGrants, glueDatabases, glueTables,
                         centralEvents, gEmitted>>]_vars

C13_Witness ==
    /\ gStatus = "FAILED"
    /\ gError = "States.TaskFailed"
    /\ gState = "updateDatabaseOwnerMetadata"
    /\ IsPresent(glueDatabases, CentralDatabaseName(gInput))

\* The catalog database of the execution.
ExecDatabaseName == gInput.producer_acc_id \o "_" \o gInput.database_name

\* C26: every database that an execution creates or updates, every table it
\* creates and every table grant it makes carries the database name
\* '<recipient domain id>_<requested database name>' of the execution input,
\* which is never the bare requested name.
C26_OneDatabaseNamePerExecution ==
    /\ [][/\ \A n \in DOMAIN glueDatabases' :
                 (n \notin DOMAIN glueDatabases \/ glueDatabases'[n] # glueDatabases[n])
                     => n = ExecDatabaseName
           /\ \A t \in glueTables' \ glueTables : t[1] = ExecDatabaseName
           /\ \A g \in lfGrants' \ lfGrants :
                 IsPresent(g.Resource, "Table") =>
                     g.Resource.Table.DatabaseName = ExecDatabaseName]_vars
    /\ [](gStatus # "IDLE" => ExecDatabaseName # gInput.database_name)

C26_Witness ==
    /\ gStatus = "SUCCEEDED"
    /\ gExecs = 2
    /\ gInput.producer_acc_id = "333"
    /\ gDbResult = "ok"
    /\ glueDatabases["333_db"].Parameters # EmptyObject
    /\ IsPresent(glueDatabases, "222_db")
    /\ {<<"333_db", "t1">>, <<"333_db", "t2">>} \subseteq glueTables
    /\ \E g \in lfGrants :
          /\ IsPresent(g.Resource, "Table")
          /\ g.Resource.Table.DatabaseName = "333_db"

\* Parameters that updateDatabaseOwnerMetadata writes for an execution input.
OwnerMetadata(input) ==
    [data_owner |-> input.producer_acc_id,
     data_owner_name |-> input.product_owner_name,
     pii_flag |-> input.product_pii_flag]

\* C27: update-database is called in an execution exactly when create-database
\* succeeded in it: the update state is entered only after a successful create
\* and is the only state after it, and only that state changes an existing
\* database; when create-database returned 'already exists' the execution goes
\* directly to the fan-out over the tables and the database keeps the
\* parameters it had.
C27_UpdateOnlyAfterCreate ==
    /\ [](gState = "updateDatabaseOwnerMetadata" => gDbResult = "ok")
    /\ [](gDbResult = "ok" =>
             /\ gState \in {"updateDatabaseOwnerMetadata", "forEachTable",
                            "triggerCreateResourceLinks"}
             /\ gState # "updateDatabaseOwnerMetadata" =>
                    glueDatabases[ExecDatabaseName].Parameters = OwnerMetadata(gInput))
    /\ [](gDbResult = "Glue.AlreadyExistsException" =>
             gState \in {"forEachTable", "triggerCreateResourceLinks"})
    /\ [][(gDbResult # "Glue.AlreadyExistsException"
            /\ gDbResult' = "Glue.AlreadyExistsException")
              => (gState' = "forEachTable" /\ UNCHANGED glueDatabases)]_vars
    /\ [][gDbResult = "Glue.AlreadyExistsException" => UNCHANGED glueDatabases]_vars
    /\ [][\A n \in DOMAIN glueDatabases :
              glueDatabases'[n] # glueDatabases[n] =>
                  /\ gState = "updateDatabaseOwnerMetadata"
                  /\ gDbResult = "ok"
                  /\ n = ExecDatabaseName]_vars

C27_Witness ==
    /\ gStatus = "SUCCEEDED"
    /\ gDbResult = "Glue.AlreadyExistsException"
    /\ glueDatabases[ExecDatabaseName].Parameters = EmptyObject
    /\ Len(gInput.tables) >= 1

\* The execution is at register-location and the location is registered
\* already: the call returns 'already exists'.
RegisterLocationExists ==
    /\ gStatus = "RUNNING"
    /\ gState = "registerS3Location"
    /\ S3Arn(gData) \in lfResources

\* C28: when register-location returns 'already exists' the execution does
\* not fail: its next state is grantLfAdminAccess, the state that follows a
\* successful registration, the execution input is intact, and no execution
\* ever fails with that error.
C28_LocationExistsProceeds ==
    /\ [][(RegisterLocationExists /\ gState' # gState) =>
              /\ gStatus' = "RUNNING"
              /\ gState' = "grantLfAdminAccess"
              /\ gData'.Exception.Error = "LakeFormation.AlreadyExistsException"
              /\ \A f \in DOMAIN gInput : gData'[f] = gInput[f]
              /\ UNCHANGED <<lfResources, lfGrants>>]_vars
    /\ [][RegisterLocationExists => gStatus' = "RUNNING"]_vars
    /\ [][(/\ gStatus = "RUNNING"
            /\ gState = "registerS3Location"
            /\ S3Arn(gData) \notin lfResources
            /\ gStatus' = "RUNNING")
              => gState' = "grantLfAdminAccess"]_vars
    /\ [](gError # "LakeFormation.AlreadyExistsException")

C28_Witness ==
    /\ gStatus = "SUCCEEDED"
    /\ IsPresent(gData, "Exception")
    /\ gData.Exception.Error = "LakeFormation.AlreadyExistsException"
    /\ gDbResult = "ok"
    /\ Len(gEmitted) = 1

\* The order of the states of RegisterDataProduct, as pairs of the state
\* left and the state entered.
StepOrder ==
    {<<"registerS3Location", "grantLfAdminAccess">>,
     <<"grantLfAdminAccess", "grantProducerAccess">>,
     <<"grantProducerAccess", "createDatabase">>,
     <<"createDatabase", "updateDatabaseOwnerMetadata">>,
     <<"createDatabase", "forEachTable">>,
     <<"updateDatabaseOwnerMetadata", "forEachTable">>,
     <<"forEachTable", "triggerCreateResourceLinks">>}

FromCreateDatabase ==
    {"createDatabase", "updateDatabaseOwnerMetadata", "forEachTable",
     "triggerCreateResourceLinks"}

LocationGrant(principal) ==
    [Permissions |-> "DATA_LOCATION_ACCESS",
     Principal |-> principal,
     Resource |-> [DataLocation |-> S3Arn(gInput)]]

CreateDatabaseReturned == gDbResult \in {"ok", "Glue.AlreadyExistsException"}

\* C29: an execution changes state only in the order register-location,
\* admin location grant, recipient location grant, create-database; when it
\* is at create-database or later the location is registered and both
\* location grants are made; create-database is called only in that state;
\* and no create-table or table grant is called before create-database
\* returned success or 'already exists'.
C29_StepOrder ==
    /\ [][(gStatus = "RUNNING" /\ gState' # gState) =>
              <<gState, gState'>> \in StepOrder]_vars
    /\ [](gState \in FromCreateDatabase \cup {"grantProducerAccess"} =>
             /\ S3Arn(gInput) \in lfResources
             /\ LocationGrant(LfAdminRoleArn) \in lfGrants)
    /\ [](gState \in FromCreateDatabase =>
             LocationGrant(gInput.producer_acc_id) \in lfGrants)
    /\ [](gDbResult # "none" => gState \in FromCreateDatabase)
    /\ []((gInMap \/ gTableResult # <<>> \/ gDoneOrder # <<>>) =>
             /\ CreateDatabaseReturned
             /\ IsPresent(glueDatabases, ExecDatabaseName))
    /\ [][(\/ glueTables' # glueTables
            \/ \E g \in lfGrants' \ lfGrants : IsPresent(g.Resource, "Table"))
              => (gState = "forEachTable" /\ gInMap /\ CreateDatabaseReturned)]_vars

C29_Witness ==
    /\ gStatus = "RUNNING"
    /\ gInMap
    /\ gDbResult = "ok"
    /\ gExecs = 1
    /\ Cardinality(glueTables) = 1
    /\ \E g \in lfGrants : IsPresent(g.Resource, "Table")
    /\ Len(gDoneOrder) = 1
    /\ Len(gBranch) = 2

TableGrant(i) ==
    [Permissions |-> "ALL",
     Principal |-> gInput.producer_acc_id,
     Resource |-> [Table |-> [DatabaseName |-> ExecDatabaseName,
                              Name |-> gInput.tables[i].name]]]

\* What the execution registered, granted and created so far is present.
CreatedStillPresent ==
    /\ gState # "registerS3Location" => S3Arn(gInput) \in lfResources
    /\ gState \notin {"registerS3Location", "grantLfAdminAccess"} =>
          LocationGrant(LfAdminRoleArn) \in lfGrants
    /\ gState \in FromCreateDatabase =>
          LocationGrant(gInput.producer_acc_id) \in lfGrants
    /\ gDbResult = "ok" => IsPresent(glueDatabases, ExecDatabaseName)
    /\ \A i \in DOMAIN gTableResult :
          gTableResult[i] = "ok" =>
              <<ExecDatabaseName, gInput.tables[i].name>> \in glueTables
    /\ \A k \in DOMAIN gDoneOrder : TableGrant(gDoneOrder[k]) \in lfGrants

\* C30: no step of the workflow removes a location registration, a grant, a
\* database or a table; the step in which an execution fails changes none of
\* them, and in a failed execution everything it registered, granted and
\* created before the failing step is present.
C30_NoRollback ==
    /\ [][/\ lfResources \subseteq lfResources'
           /\ lfGrants \subseteq lfGrants'
           /\ DOMAIN glueDatabases \subseteq DOMAIN glueDatabases'
           /\ glueTables \subseteq glueTables']_vars
    /\ [][(gStatus = "RUNNING" /\ gStatus' = "FAILED") =>
              UNCHANGED <<lfResources, lfGrants, glueDatabases, glueTables>>]_vars
    /\ [](gStatus = "FAILED" => CreatedStillPresent)

C30_Witness ==
    /\ gStatus = "FAILED"
    /\ gExecs = 1
    /\ gInMap
    /\ Len(gDoneOrder) = 1
    /\ \E i \in DOMAIN gTableResult : gTableResult[i] = "States.TaskFailed"
    /\ Cardinality(glueTables) = 1
    /\ Cardinality(lfGrants) = 3
    /\ gDbResult = "ok"
    /\ glueDatabases[ExecDatabaseName].Parameters = OwnerMetadata(gInput)

(***************************************************************************)
(* Routing of the completion event: registrations, the Governance          *)
(* Workflow, and the rule of every data domain on its own bus.             *)
(***************************************************************************)
\* Events that the central workflow can put.
CompletionEvents ==
    [source : {"com.central.stepfunction"},
     account : {CentralAccId},
     detailType : {CreateResourceLinksDetailType(d) : d \in DataDomains},
     detail : [database_name : DatabaseNames,
               table_names : SeqUpTo(TableNames, 1)]]

\* DataDomainRule of data domain d matches an event delivered to its bus and
\* starts an execution of the Domain Intake Workflow of d.
DataDomainRuleFires(d, ev) ==
    /\ UNCHANGED <<intakeVars, regVars, govVars, refreshVars, concVars, trigVars>>
    /\ [bus |-> DomainBusArn(d), event |-> ev] \in domainBus
    /\ DataDomainRuleOf(d, ev)
    /\ [domain |-> d, event |-> ev] \notin intakeStarts
    /\ intakeStarts' = intakeStarts \cup {[domain |-> d, event |-> ev]}
    /\ UNCHANGED <<domainBus, routeLog>>

\* A registration is deployed while the Governance Workflow runs or rests.
RegisterDataDomain(props) ==
    /\ Len(regCalls) < MaxRoutingRegistrations
    /\ DataDomainRegistration(props)

\* Registrations of data products with one table.
RoutingInputs == {input \in GovernanceInputs : input.tables = <<[name |-> "t1"]>>}

InitRouting ==
    /\ ramInvitations = <<>>
    /\ resourceLinks = {}
    /\ IntakeIdle
    /\ RegistrationIdle
    /\ GovernanceIdle
    /\ RefreshIdle
    /\ RoutingIdle

NextRouting ==
    \/ \E props \in RegistrationProps : RegisterDataDomain(props)
    \/ \E input \in RoutingInputs : StartGovernance(input)
    \/ registerS3Location
    \/ grantLfAdminAccess
    \/ grantProducerAccess
    \/ createDatabase
    \/ updateDatabaseOwnerMetadata
    \/ tablesMapTask
    \/ \E i \in 1..MaxTables : createTable(i)
    \/ \E i \in 1..MaxTables : grantTablePermissions(i)
    \/ tablesMapTaskDone
    \/ triggerProducer
    \/ \E d \in DataDomains, ev \in CompletionEvents : DataDomainRuleFires(d, ev)

SpecRouting == InitRouting /\ [][NextRouting]_vars

\* C16: a completion event for recipient domain X is forwarded only to a bus
\* in the account of X and starts a Domain Intake execution only in X, also
\* when other domains are registered.
C16_RoutedToRecipientOnly ==
    /\ \A k \in DOMAIN routeLog :
          routeLog[k].delivered \subseteq BusArnsOfAccount(routeLog[k].recipient)
    /\ \A b \in domainBus, d \in DataDomains :
          b.bus \in BusArnsOfAccount(d) =>
              b.event.detailType = d \o "_createResourceLinks"
    /\ \A s \in intakeStarts :
          \E k \in DOMAIN routeLog : /\ routeLog[k].event = s.event
                                      /\ routeLog[k].recipient = s.domain

C16_Witness ==
    /\ RegisteredDomains = DataDomains
    /\ \E s \in intakeStarts : s.domain = "333"
    /\ \A s \in intakeStarts : s.domain # "222"
    /\ \E k \in DOMAIN routeLog :
          routeLog[k].recipient = "333" /\ routeLog[k].registered = DataDomains

\* C17: a Domain Intake execution is started in domain X only by an event at
\* whose emission a registration of X existed; an event emitted for a domain
\* without registration is delivered nowhere, and the execution that emitted
\* it succeeded all the same.
C17_NoStartWithoutRegistration ==
    /\ \A s \in intakeStarts :
          \E k \in DOMAIN routeLog : /\ routeLog[k].event = s.event
                                      /\ s.domain \in routeLog[k].registered
    /\ \A k \in DOMAIN routeLog :
          routeLog[k].recipient \notin routeLog[k].registered =>
              /\ routeLog[k].delivered = {}
              /\ \A b \in domainBus :
                    b.event = routeLog[k].event =>
                        \E n \in DOMAIN routeLog :
                            /\ routeLog[n].event = b.event
                            /\ routeLog[n].recipient \in routeLog[n].registered
    /\ \A k \in DOMAIN gEmitted : gStatus = "SUCCEEDED"

C17_Witness ==
    /\ gStatus = "SUCCEEDED"
    /\ Len(routeLog) = 1
    /\ routeLog[1].recipient = "222"
    /\ routeLog[1].registered = {"333"}
    /\ domainBus = {}
    /\ intakeStarts = {}

(***************************************************************************)
(* Metadata Refresh Workflow                                               *)
(***************************************************************************)
DataDomainWorkflowArn == "arn:aws:states:stateMachine:CrossAccStateMachine"

\* $$.Execution.Id of the current execution.
ExecutionId == rExec.id

\* The execution input serialized in the status change event, and its parsing
\* by States.StringToJson.
JsonString(value) == [json |-> value]

StringToJson(str) == str.json

\* Table lists of the inputs: the lists t1, t2, t1, ... of at most
\* MaxRefreshTables names.
RefreshTableLists ==
    {[i \in 1..n |-> IF i % 2 = 1 THEN "t1" ELSE "t2"] : n \in 0..MaxRefreshTables}

\* Inputs of the executions of the Domain Intake Workflow that the status
\* change events carry.
RefreshInputs ==
    [source : {"com.central.stepfunction"},
     account : {CentralAccId},
     detailType : {CreateResourceLinksDetailType(AwsAccountId)},
     detail : [database_name : DatabaseNames,
               table_names : RefreshTableLists]]

\* Execution status change events of Step Functions.
StatusChangeEvents ==
    [source : {"aws.states"},
     detailType : {"Step Functions Execution Status Change"},
     detail : [status : {"SUCCEEDED"},
               stateMachineArn : {DataDomainWorkflowArn},
               input : {JsonString(ev) : ev \in RefreshInputs}]]

\* Faulty variant: the pattern does not filter on the status.
TriggerUpdateTableSchemasRule_bug(ev) ==
    /\ ev.source = "aws.states"
    /\ ev.detailType = "Step Functions Execution Status Change"
    /\ ev.detail.stateMachineArn = DataDomainWorkflowArn

\* Event pattern of TriggerUpdateTableSchemasRule.
TriggerUpdateTableSchemasRule(ev) ==
    /\ ev.source = "aws.states"
    /\ ev.detailType = "Step Functions Execution Status Change"
    /\ ev.detail.status = "SUCCEEDED"
    /\ ev.detail.stateMachineArn = DataDomainWorkflowArn

\* maxConcurrency of the Map 'TraverseTableArray'
MaxConcurrency == 2

RefreshFail(err) ==
    /\ rStatus' = "FAILED"
    /\ rError' = err

\* targets: [new SfnStateMachine(updateTableSchemasStateMachine)]
StartRefresh(ev) ==
    /\ UNCHANGED <<intakeVars, regVars, govVars, concVars, routeVars>>
    /\ rStatus = "IDLE"
    /\ TriggerUpdateTableSchemasRule(ev)
    /\ rTrigger' = ev
    /\ UNCHANGED pollRun
    /\ rStatus' = "RUNNING"
    /\ rState' = "WaitForMetadata"
    /\ rData' = ev
    /\ UNCHANGED <<crawlers, lfTableGrants, rError, rInMap, rBranch, rPolls, rDeletes>>

\* Wait 'WaitForMetadata', 15 seconds
initState ==
    /\ UNCHANGED <<intakeVars, regVars, govVars, concVars, routeVars, trigVars>>
    /\ rStatus = "RUNNING"
    /\ rState = "WaitForMetadata"
    /\ rState' = "ParseEventPayload"
    /\ UNCHANGED <<crawlers, lfTableGrants, rStatus, rError, rData, rInMap, rBranch,
                   rPolls, rDeletes>>

\* Pass 'ParseEventPayload': inputPath $.detail.input, payload = StringToJson($)
parseEventPayload ==
    /\ UNCHANGED <<intakeVars, regVars, govVars, concVars, routeVars, trigVars>>
    /\ rStatus = "RUNNING"
    /\ rState = "ParseEventPayload"
    /\ rData' = [payload |-> StringToJson(rData.detail.input)]
    /\ rState' = "TraverseTableArray"
    /\ UNCHANGED <<crawlers, lfTableGrants, rStatus, rError, rInMap, rBranch, rPolls,
                   rDeletes>>

\* Map 'TraverseTableArray': itemsPath and parameters
TraverseItem(data, b) ==
    [tableName |-> "rl-" \o data.payload.detail.table_names[b],
     databaseName |-> data.payload.detail.database_name]

traverseTableArray ==
    /\ UNCHANGED <<intakeVars, regVars, govVars, concVars, routeVars, trigVars>>
    /\ rStatus = "RUNNING"
    /\ rState = "TraverseTableArray"
    /\ ~rInMap
    /\ rInMap' = TRUE
    /\ rBranch' = [b \in 1..Len(rData.payload.detail.table_names) |->
                      [state |-> "pending", data |-> TraverseItem(rData, b)]]
    /\ rPolls' = [b \in 1..Len(rData.payload.detail.table_names) |-> <<>>]
    /\ rDeletes' = [b \in 1..Len(rData.payload.detail.table_names) |-> 0]
    /\ UNCHANGED <<crawlers, lfTableGrants, rStatus, rError, rState, rData>>

\* Faulty variant: the Map without a concurrency limit.
MayStartIteration_bug(active) == TRUE

\* A Map with maxConcurrency n > 0 runs at most n iterations at once; 0 means
\* no limit.
MayStartIteration(active) == MaxConcurrency = 0 \/ active < MaxConcurrency

ActiveIterations ==
    {b \in DOMAIN rBranch : rBranch[b].state \notin {"pending", "done"}}

\* Map 'TraverseTableArray': the next item starts its iteration while fewer
\* than maxConcurrency iterations are running.
traverseTableArrayNext(b) ==
    /\ UNCHANGED <<intakeVars, regVars, govVars, concVars, routeVars, trigVars>>
    /\ rStatus = "RUNNING"
    /\ rInMap
    /\ b \in DOMAIN rBranch
    /\ rBranch[b].state = "pending"
    /\ \A c \in 1..(b - 1) : rBranch[c].state # "pending"
    /\ MayStartIteration(Cardinality(ActiveIterations))
    /\ rBranch' = [rBranch EXCEPT ![b].state = "GrantPermissions"]
    /\ UNCHANGED <<crawlers, lfTableGrants, rStatus, rError, rState, rData, rInMap,
                   rPolls, rDeletes>>

\* Faulty variant: the crawler is waited for without having been started.
IteratorNext_bug(state) ==
    CASE state = "GrantPermissions" -> "CreateCrawlerForTable"
      [] state = "CreateCrawlerForTable" -> "WaitForCrawler"
      [] state = "StartCrawler" -> "WaitForCrawler"
      [] state = "WaitForCrawler" -> "GetCrawler"
      [] state = "GetCrawler" -> "CheckCrawlerStatusChoice"
      [] state = "DeleteCrawler" -> "done"

\* Wiring of the iterator: grantPermissions.next(createCrawlerForTable),
\* createCrawlerForTable.next(startCrawler), startCrawler.next(waitForCrawler),
\* waitForCrawler.next(getCrawler), getCrawler.next(checkCrawlerStatusChoice);
\* deleteCrawler is the end state.
IteratorNext(state) ==
    CASE state = "GrantPermissions" -> "CreateCrawlerForTable"
      [] state = "CreateCrawlerForTable" -> "StartCrawler"
      [] state = "StartCrawler" -> "WaitForCrawler"
      [] state = "WaitForCrawler" -> "GetCrawler"
      [] state = "GetCrawler" -> "CheckCrawlerStatusChoice"
      [] state = "DeleteCrawler" -> "done"

RefreshInIteration(b, state) ==
    /\ rStatus = "RUNNING"
    /\ rInMap
    /\ b \in DOMAIN rBranch
    /\ rBranch[b].state = state

\* lakeformation:grantPermissions ALL on the table to the LF admin role
grantPermissions(b) ==
    /\ UNCHANGED <<intakeVars, regVars, govVars, concVars, routeVars, trigVars>>
    /\ RefreshInIteration(b, "GrantPermissions")
    /\ \/ /\ lfTableGrants' = lfTableGrants \cup
                {[Permissions |-> "ALL",
                  Principal |-> LfAdminRoleArn,
                  Resource |-> [Table |-> [DatabaseName |-> rBranch[b].data.databaseName,
                                           Name |-> rBranch[b].data.tableName]]]}
          /\ rBranch' = [rBranch EXCEPT ![b].state = IteratorNext("GrantPermissions")]
          /\ UNCHANGED <<rStatus, rError>>
       \/ /\ RefreshFail("States.TaskFailed")
          /\ UNCHANGED <<lfTableGrants, rBranch>>
    /\ UNCHANGED <<crawlers, rState, rData, rInMap, rPolls, rDeletes>>

\* Faulty variant: the name does not hold the execution id.
CrawlerName_bug(item) == item.databaseName \o "_" \o item.tableName

\* States.Format('{}_{}_{}', $$.Execution.Id, $.databaseName, $.tableName)
CrawlerName(item) == ExecutionId \o "_" \o item.databaseName \o "_" \o item.tableName

\* glue:createCrawler, resultPath DISCARD
createCrawlerForTable(b) ==
    /\ UNCHANGED <<intakeVars, regVars, govVars, concVars, routeVars, trigVars>>
    /\ RefreshInIteration(b, "CreateCrawlerForTable")
    /\ LET name == CrawlerName(rBranch[b].data) IN
       \/ /\ ~IsPresent(crawlers, name)
          /\ crawlers' = ResultPath(crawlers, name, "READY")
          /\ rBranch' = [rBranch EXCEPT ![b].state = IteratorNext("CreateCrawlerForTable")]
          /\ UNCHANGED <<rStatus, rError>>
       \/ /\ RefreshFail(IF IsPresent(crawlers, name) THEN "Glue.AlreadyExistsException"
                                                      ELSE "States.TaskFailed")
          /\ UNCHANGED <<crawlers, rBranch>>
    /\ UNCHANGED <<lfTableGrants, rState, rData, rInMap, rPolls, rDeletes>>

\* glue:startCrawler, resultPath DISCARD
startCrawler(b) ==
    /\ UNCHANGED <<intakeVars, regVars, govVars, concVars, routeVars, trigVars>>
    /\ RefreshInIteration(b, "StartCrawler")
    /\ LET name == CrawlerName(rBranch[b].data) IN
       \/ /\ IsPresent(crawlers, name)
          /\ crawlers[name] = "READY"
          /\ crawlers' = [crawlers EXCEPT ![name] = "RUNNING"]
          /\ rBranch' = [rBranch EXCEPT ![b].state = IteratorNext("StartCrawler")]
          /\ UNCHANGED <<rStatus, rError>>
       \/ /\ RefreshFail("States.TaskFailed")
          /\ UNCHANGED <<crawlers, rBranch>>
    /\ UNCHANGED <<lfTableGrants, rState, rData, rInMap, rPolls, rDeletes>>

\* Wait 'WaitForCrawler', 15 seconds
waitForCrawler(b) ==
    /\ UNCHANGED <<intakeVars, regVars, govVars, concVars, routeVars, trigVars>>
    /\ RefreshInIteration(b, "WaitForCrawler")
    /\ rBranch' = [rBranch EXCEPT ![b].state = IteratorNext("WaitForCrawler")]
    /\ UNCHANGED <<crawlers, lfTableGrants, rStatus, rError, rState, rData, rInMap,
                   rPolls, rDeletes>>

\* Number of getCrawler calls the execution has made.
PollsMade == Cardinality(UNION {{<<b, k>> : k \in DOMAIN rPolls[b]} : b \in DOMAIN rPolls})

\* glue:getCrawler, resultPath $.crawlerInfo
getCrawler(b) ==
    /\ UNCHANGED <<intakeVars, regVars, govVars, concVars, routeVars, trigVars>>
    /\ RefreshInIteration(b, "GetCrawler")
    /\ PollsMade < MaxPolls
    /\ LET name == CrawlerName(rBranch[b].data) IN
       \/ /\ IsPresent(crawlers, name)
          /\ rBranch' = [rBranch EXCEPT
                ![b].state = IteratorNext("GetCrawler"),
                ![b].data = ResultPath(rBranch[b].data, "crawlerInfo",
                                       [Crawler |-> [State |-> crawlers[name]]])]
          /\ rPolls' = [rPolls EXCEPT ![b] = Append(rPolls[b], crawlers[name])]
          /\ UNCHANGED <<rStatus, rError>>
       \/ /\ RefreshFail("States.TaskFailed")
          /\ UNCHANGED <<rBranch, rPolls>>
    /\ UNCHANGED <<crawlers, lfTableGrants, rState, rData, rInMap, rDeletes>>

\* Faulty variant: the terminal test of DataProduct, state is not RUNNING.
CrawlerReady_bug(state) == state # "RUNNING"

\* Condition.stringEquals("$.crawlerInfo.Crawler.State", "READY")
CrawlerReady(state) == state = "READY"

\* Faulty variant: the loop gives up after two polls.
CheckCrawlerStatusNext_bug(state, polls) ==
    IF CrawlerReady(state) \/ polls >= 2 THEN "DeleteCrawler" ELSE "WaitForCrawler"

\* checkCrawlerStatusChoice.when(READY, deleteCrawler).otherwise(waitForCrawler):
\* the number of polls made so far plays no part.
CheckCrawlerStatusNext(state, polls) ==
    IF CrawlerReady(state) THEN "DeleteCrawler" ELSE "WaitForCrawler"

\* Choice 'CheckCrawlerStatusChoice'
checkCrawlerStatusChoice(b) ==
    /\ UNCHANGED <<intakeVars, regVars, govVars, concVars, routeVars, trigVars>>
    /\ RefreshInIteration(b, "CheckCrawlerStatusChoice")
    /\ rBranch' = [rBranch EXCEPT ![b].state =
                      CheckCrawlerStatusNext(rBranch[b].data.crawlerInfo.Crawler.State,
                                             Len(rPolls[b]))]
    /\ UNCHANGED <<crawlers, lfTableGrants, rStatus, rError, rState, rData, rInMap,
                   rPolls, rDeletes>>

\* glue:deleteCrawler, resultPath DISCARD, end state of the iterator
deleteCrawler(b) ==
    /\ UNCHANGED <<intakeVars, regVars, govVars, concVars, routeVars, trigVars>>
    /\ RefreshInIteration(b, "DeleteCrawler")
    /\ rDeletes' = [rDeletes EXCEPT ![b] = rDeletes[b] + 1]
    /\ LET name == CrawlerName(rBranch[b].data) IN
       \/ /\ IsPresent(crawlers, name)
          /\ crawlers[name] = "READY"
          /\ crawlers' = [n \in (DOMAIN crawlers) \ {name} |-> crawlers[n]]
          /\ rBranch' = [rBranch EXCEPT ![b].state = IteratorNext("DeleteCrawler")]
          /\ UNCHANGED <<rStatus, rError>>
       \/ /\ RefreshFail(IF IsPresent(crawlers, name) /\ crawlers[name] # "READY"
                         THEN "Glue.CrawlerRunningException" ELSE "States.TaskFailed")
          /\ UNCHANGED <<crawlers, rBranch>>
    /\ UNCHANGED <<lfTableGrants, rState, rData, rInMap, rPolls>>

\* Map 'TraverseTableArray': resultPath DISCARD, end state of the state machine
traverseTableArrayDone ==
    /\ UNCHANGED <<intakeVars, regVars, govVars, concVars, routeVars, trigVars>>
    /\ rStatus = "RUNNING"
    /\ rState = "TraverseTableArray"
    /\ rInMap
    /\ \A b \in DOMAIN rBranch : rBranch[b].state = "done"
    /\ rStatus' = "SUCCEEDED"
    /\ rInMap' = FALSE
    /\ UNCHANGED <<crawlers, lfTableGrants, rError, rState, rData, rBranch, rPolls,
                   rDeletes>>

CrawlerNames ==
    {CrawlerName([databaseName |-> d, tableName |-> "rl-" \o t]) :
        d \in DatabaseNames, t \in TableNames}

\* Glue runs a started crawler: RUNNING, then STOPPING, then READY.
CrawlerProgress(name) ==
    /\ UNCHANGED <<intakeVars, regVars, govVars, concVars, routeVars, trigVars>>
    /\ IsPresent(crawlers, name)
    /\ crawlers[name] \in {"RUNNING", "STOPPING"}
    /\ crawlers' = [crawlers EXCEPT ![name] =
                       IF crawlers[name] = "RUNNING" THEN "STOPPING" ELSE "READY"]
    /\ UNCHANGED <<lfTableGrants, rStatus, rError, rState, rData, rInMap, rBranch,
                   rPolls, rDeletes>>

InitRefresh ==
    /\ ramInvitations = <<>>
    /\ resourceLinks = {}
    /\ IntakeIdle
    /\ RegistrationIdle
    /\ GovernanceIdle
    /\ RefreshIdle
    /\ RoutingIdle

NextRefresh ==
    \/ \E ev \in StatusChangeEvents : StartRefresh(ev)
    \/ initState
    \/ parseEventPayload
    \/ traverseTableArray
    \/ \E b \in 1..MaxRefreshTables : traverseTableArrayNext(b)
    \/ \E b \in 1..MaxRefreshTables : grantPermissions(b)
    \/ \E b \in 1..MaxRefreshTables : createCrawlerForTable(b)
    \/ \E b \in 1..MaxRefreshTables : startCrawler(b)
    \/ \E b \in 1..MaxRefreshTables : waitForCrawler(b)
    \/ \E b \in 1..MaxRefreshTables : getCrawler(b)
    \/ \E b \in 1..MaxRefreshTables : checkCrawlerStatusChoice(b)
    \/ \E b \in 1..MaxRefreshTables : deleteCrawler(b)
    \/ traverseTableArrayDone
    \/ \E name \in CrawlerNames : CrawlerProgress(name)

SpecRefresh == InitRefresh /\ [][NextRefresh]_vars

(***************************************************************************)
(* Properties of the Metadata Refresh Workflow                             *)
(***************************************************************************)
\* C6: polling stops at the first poll that reports READY (a job that is not
\* ready on its first n polls and ready on poll n+1 is polled n+1 times), the
\* job is deleted only after that poll and at most once, and an iteration that
\* completed has deleted its job exactly once.
C6_PollUntilReadyThenDeleteOnce ==
    \A b \in DOMAIN rPolls :
        /\ \A k \in 1..(Len(rPolls[b]) - 1) : rPolls[b][k] # "READY"
        /\ rDeletes[b] <= 1
        /\ rDeletes[b] = 1 =>
              Len(rPolls[b]) >= 1 /\ rPolls[b][Len(rPolls[b])] = "READY"
        /\ rBranch[b].state = "done" => rDeletes[b] = 1
        /\ rBranch[b].state \in {"WaitForCrawler", "GetCrawler"} =>
              \A k \in 1..Len(rPolls[b]) : rPolls[b][k] # "READY"

C6_Witness ==
    \E b \in DOMAIN rPolls :
        /\ rPolls[b] = <<"RUNNING", "RUNNING", "READY">>
        /\ rDeletes[b] = 1
        /\ rBranch[b].state = "done"

\* Crawlers named after this execution that still exist in Glue.
CrawlersOfExecution == {name \in CrawlerNames : IsPresent(crawlers, name)}

\* C11: in every terminal state of an execution, succeeded or failed, no
\* crawler created by the execution still exists.
C11_NoCrawlerOutlivesExecution ==
    rStatus \in {"SUCCEEDED", "FAILED"} => CrawlersOfExecution = {}

NeverReportedReady(b) ==
    /\ Len(rPolls[b]) >= 1
    /\ \A k \in DOMAIN rPolls[b] : rPolls[b][k] # "READY"

PollLoopStates == {"WaitForCrawler", "GetCrawler", "CheckCrawlerStatusChoice"}

\* C20: a branch whose crawler has not reported READY stays in the polling
\* loop however many polls it has made: it has deleted nothing, the execution
\* has not succeeded and has failed only if an external call returned an
\* error, and every step the branch takes from the status check leads back to
\* the wait state.
C20_NotReadyPollsOn ==
    /\ [](\A b \in DOMAIN rPolls :
              NeverReportedReady(b) =>
                  /\ rBranch[b].state \in PollLoopStates
                  /\ rDeletes[b] = 0
                  /\ rStatus # "SUCCEEDED"
                  /\ rStatus = "FAILED" =>
                         rError \in {"States.TaskFailed", "Glue.AlreadyExistsException",
                                     "Glue.CrawlerRunningException"})
    /\ [][\A b \in DOMAIN rPolls :
              (/\ NeverReportedReady(b)
               /\ rBranch[b].state = "CheckCrawlerStatusChoice"
               /\ rBranch'[b].state # rBranch[b].state)
                  => rBranch'[b].state = "WaitForCrawler"]_vars

C20_Witness ==
    \E b \in DOMAIN rPolls :
        /\ Len(rPolls[b]) = MaxPolls
        /\ NeverReportedReady(b)
        /\ rBranch[b].state = "WaitForCrawler"
        /\ rStatus = "RUNNING"

\* The order in which a per-table branch may issue its calls, as pairs of
\* the state left and the state entered.
CallOrder ==
    {<<"pending", "GrantPermissions">>,
     <<"GrantPermissions", "CreateCrawlerForTable">>,
     <<"CreateCrawlerForTable", "StartCrawler">>,
     <<"StartCrawler", "WaitForCrawler">>,
     <<"WaitForCrawler", "GetCrawler">>,
     <<"GetCrawler", "CheckCrawlerStatusChoice">>,
     <<"CheckCrawlerStatusChoice", "WaitForCrawler">>,
     <<"CheckCrawlerStatusChoice", "DeleteCrawler">>,
     <<"DeleteCrawler", "done">>}

\* Branch b leaves state from for state to in the step.
BranchMoves(b, from, to) ==
    /\ b \in DOMAIN rBranch
    /\ b \in DOMAIN rBranch'
    /\ rBranch[b].state = from
    /\ rBranch'[b].state = to

LastPollReady(b) ==
    /\ Len(rPolls[b]) >= 1
    /\ rPolls[b][Len(rPolls[b])] = "READY"

\* C24: every per-table branch issues its calls in the order grant-permission,
\* create-crawler, start-crawler, one or more rounds of wait and get-crawler,
\* delete-crawler: a branch changes state only along that order, each effect
\* on Lake Formation and on Glue is made by a branch in the state of that call,
\* the delete state is entered only from the status check after a poll that
\* reported READY, and a delete is issued only by a branch in that state.
C24_BranchCallOrder ==
    /\ [][\A b \in DOMAIN rBranch :
              (b \in DOMAIN rBranch' /\ rBranch'[b].state # rBranch[b].state) =>
                  /\ <<rBranch[b].state, rBranch'[b].state>> \in CallOrder
                  /\ rBranch'[b].state = "DeleteCrawler" => LastPollReady(b)]_vars
    /\ [][/\ lfTableGrants' # lfTableGrants =>
                 (\E g \in DOMAIN rBranch :
                     BranchMoves(g, "GrantPermissions", "CreateCrawlerForTable"))
           /\ \A name \in CrawlerNames :
                 /\ (~IsPresent(crawlers, name) /\ IsPresent(crawlers', name)) =>
                       \E b \in DOMAIN rBranch :
                           /\ BranchMoves(b, "CreateCrawlerForTable", "StartCrawler")
                           /\ CrawlerName(rBranch[b].data) = name
                 /\ (/\ IsPresent(crawlers, name) /\ IsPresent(crawlers', name)
                     /\ crawlers[name] = "READY" /\ crawlers'[name] = "RUNNING") =>
                       \E b \in DOMAIN rBranch :
                           /\ BranchMoves(b, "StartCrawler", "WaitForCrawler")
                           /\ CrawlerName(rBranch[b].data) = name
                 /\ (IsPresent(crawlers, name) /\ ~IsPresent(crawlers', name)) =>
                       \E b \in DOMAIN rBranch :
                           /\ BranchMoves(b, "DeleteCrawler", "done")
                           /\ CrawlerName(rBranch[b].data) = name
           /\ \A p \in DOMAIN rPolls :
                 /\ rPolls'[p] # rPolls[p] =>
                       BranchMoves(p, "GetCrawler", "CheckCrawlerStatusChoice")
                 /\ rDeletes'[p] # rDeletes[p] =>
                       rBranch[p].state = "DeleteCrawler" /\ LastPollReady(p)]_vars

C24_Witness ==
    \E b \in DOMAIN rBranch :
        /\ rBranch[b].state = "done"
        /\ rPolls[b] = <<"STOPPING", "READY">>
        /\ rDeletes[b] = 1
        /\ ~IsPresent(crawlers, CrawlerName([databaseName |-> "db", tableName |-> "rl-t1"]))
        /\ rStatus = "SUCCEEDED"

(***************************************************************************)
(* The Domain Intake Workflow and the trigger of the Metadata Refresh      *)
(* Workflow, up to the parsing of the payload.                             *)
(***************************************************************************)
\* The status change event that Step Functions publishes for the execution
\* of the Domain Intake Workflow in its present status.
IntakeStatusEvent ==
    [source |-> "aws.states",
     detailType |-> "Step Functions Execution Status Change",
     detail |-> [status |-> iStatus,
                 stateMachineArn |-> DataDomainWorkflowArn,
                 input |-> JsonString(iInput)]]

\* The default bus of the account hands the event to TriggerUpdateTableSchemasRule.
ExecutionStatusChange ==
    /\ iStatus # "IDLE"
    /\ StartRefresh(IntakeStatusEvent)

NextIntakeRefresh ==
    \/ \E ev \in DuplicateEvents : StartIntake(ev)
    \/ getRamInvitations
    \/ resourceShareInvitationsEmpty
    \/ ramMapTask
    \/ \E i \in 1..MaxInvitations : isInvitationPending(i)
    \/ \E i \in 1..MaxInvitations : acceptRamShare(i)
    \/ \E i \in 1..MaxInvitations : notPendingPass(i)
    \/ ramMapTaskDone
    \/ shareAccepted
    \/ rlMapTask
    \/ \E j \in 1..MaxTables : createResourceLink(j)
    \/ rlMapTaskDone
    \/ finishWorkflow
    \/ ExecutionStatusChange
    \/ initState
    \/ parseEventPayload

SpecIntakeRefresh == InitIntakeDuplicate /\ [][NextIntakeRefresh]_vars

C23_ExistingLinkFailsExecution ==
    /\ [][(/\ Len(iLinkCalls') = Len(iLinkCalls) + 1
            /\ LinkExists(resourceLinks, iLinkCalls'[Len(iLinkCalls')]))
              => /\ iStatus' = "FAILED"
                 /\ iError' = "Glue.AlreadyExistsException"
                 /\ resourceLinks' = resourceLinks]_vars
    /\ [](iError = "Glue.AlreadyExistsException" =>
             /\ iStatus = "FAILED"
             /\ iState = "forEachTable"
             /\ ~TriggerUpdateTableSchemasRule(IntakeStatusEvent)
             /\ ~ENABLED ExecutionStatusChange)
    /\ [][(iError = "Glue.AlreadyExistsException" /\ rStatus = "IDLE")
              => rStatus' = "IDLE"]_vars

C23_Witness ==
    /\ iStatus = "FAILED"
    /\ iError = "Glue.AlreadyExistsException"
    /\ LinkExists(resourceLinks, iLinkCalls[Len(iLinkCalls)])
    /\ rStatus = "IDLE"

(***************************************************************************)
(* The fan-outs of the Domain Intake Workflow and of the Metadata Refresh  *)
(* Workflow.  The two workflows share no service state (RAM and the        *)
(* resource links on one side, crawlers and table grants on the other),    *)
(* so a behaviour runs executions of one of them.                          *)
(***************************************************************************)
\* Invitations of the account: a pending share of the central account,
\* followed by pending shares of the central account or of another account.
FanOutInvitationLists ==
    {l \in InvitationLists :
        /\ \A i \in 1..Len(l) : l[i].Status = "PENDING"
        /\ Len(l) >= 1 => l[1].SenderAccountId = CentralAccId}

\* Status change events that carry the input of an Intake execution.
FanOutStatusChangeEvents ==
    {ev \in StatusChangeEvents : StringToJson(ev.detail.input) \in DuplicateEvents}

StartFanOutIntake(ev) ==
    /\ rStatus = "IDLE"
    /\ StartIntake(ev)

StartFanOutRefresh(ev) ==
    /\ iStatus = "IDLE"
    /\ StartRefresh(ev)

InitFanOut ==
    /\ ramInvitations \in FanOutInvitationLists
    /\ resourceLinks = {}
    /\ IntakeIdle
    /\ RegistrationIdle
    /\ GovernanceIdle
    /\ RefreshIdle
    /\ RoutingIdle

NextFanOut ==
    \/ \E ev \in DuplicateEvents : StartFanOutIntake(ev)
    \/ getRamInvitations
    \/ resourceShareInvitationsEmpty
    \/ ramMapTask
    \/ \E i \in 1..MaxInvitations : isInvitationPending(i)
    \/ \E i \in 1..MaxInvitations : acceptRamShare(i)
    \/ \E i \in 1..MaxInvitations : notPendingPass(i)
    \/ ramMapTaskDone
    \/ shareAccepted
    \/ rlMapTask
    \/ \E j \in 1..MaxTables : createResourceLink(j)
    \/ rlMapTaskDone
    \/ finishWorkflow
    \/ \E ev \in FanOutStatusChangeEvents : StartFanOutRefresh(ev)
    \/ initState
    \/ parseEventPayload
    \/ traverseTableArray
    \/ \E b \in 1..MaxTables : traverseTableArrayNext(b)
    \/ \E b \in 1..MaxTables : grantPermissions(b)
    \/ \E b \in 1..MaxTables : createCrawlerForTable(b)
    \/ \E b \in 1..MaxTables : startCrawler(b)
    \/ \E b \in 1..MaxTables : waitForCrawler(b)
    \/ \E b \in 1..MaxTables : getCrawler(b)
    \/ \E b \in 1..MaxTables : checkCrawlerStatusChoice(b)
    \/ \E b \in 1..MaxTables : deleteCrawler(b)
    \/ traverseTableArrayDone
    \/ \E name \in CrawlerNames : CrawlerProgress(name)

SpecFanOut == InitFanOut /\ [][NextFanOut]_vars

\* An accept-invitation call of the execution returned an error.
AcceptFailed == Len(iAcceptCalls) > Cardinality(DOMAIN iAcceptResp)

\* C25: an error in one branch of a fan-out fails the whole execution: an
\* Intake execution in which an accept call failed is failed in the
\* invitation fan-out and has created no link; an execution of either
\* workflow that failed inside a fan-out stays failed, its sibling branches
\* take no further step and it calls nothing more; an execution of the
\* Metadata Refresh Workflow succeeds only when every branch completed.
C25_FanOutFailureNotIsolated ==
    /\ [](AcceptFailed =>
             /\ iStatus = "FAILED"
             /\ iState = "forEachRamInvitation"
             /\ iInMap
             /\ iLinkCalls = <<>>)
    /\ [](iError # "none" => iStatus = "FAILED")
    /\ [](rError # "none" => rStatus = "FAILED")
    /\ [](rStatus = "FAILED" =>
             /\ rInMap
             /\ \E b \in DOMAIN rBranch : rBranch[b].state \notin {"pending", "done"})
    /\ [](rStatus = "SUCCEEDED" =>
             \A b \in DOMAIN rBranch : rBranch[b].state = "done" /\ rDeletes[b] = 1)
    /\ [][(iStatus = "FAILED" /\ iStatus' # "RUNNING") =>
              UNCHANGED <<intakeVars>>]_vars
    /\ [][rStatus = "FAILED" =>
              UNCHANGED <<lfTableGrants, rStatus, rError, rState, rBranch, rPolls,
                          rDeletes>>]_vars

C25_Witness ==
    /\ AcceptFailed
    /\ iStatus = "FAILED"
    /\ Len(iBranch) = 2
    /\ \E i \in DOMAIN iBranch : iBranch[i].state = "done"
    /\ iAccepted # {}
    /\ iLinkCalls = <<>>

(***************************************************************************)
(* Termination.  Step Functions takes the next transition of a running     *)
(* execution as soon as the call of the current state has returned, so the *)
(* steps of the workflows are weakly fair; starts of executions and the    *)
(* progress of a crawler are not.  The workflows are observed one at a     *)
(* time.                                                                   *)
(***************************************************************************)
\* Registrations of data products of one recipient, tables t1, t2, t1, ...
TerminationInputs ==
    {input \in GovernanceInputs :
        /\ input.producer_acc_id = AwsAccountId
        /\ \A k \in DOMAIN input.tables :
              input.tables[k].name = IF k % 2 = 1 THEN "t1" ELSE "t2"}

\* No invitation, or as many pending invitations of the central account as
\* the list holds.
TerminationInvitationLists ==
    {l \in FanOutInvitationLists :
        /\ Len(l) \in {0, MaxInvitations}
        /\ \A i \in 1..Len(l) : l[i].SenderAccountId = CentralAccId}

\* Status change events whose tables all run in concurrent iterations.
TerminationStatusChangeEvents ==
    {ev \in FanOutStatusChangeEvents :
        Len(StringToJson(ev.detail.input).detail.table_names) <= MaxConcurrency}

StartTerminationGovernance(input) ==
    /\ iStatus = "IDLE"
    /\ rStatus = "IDLE"
    /\ gExecs < 2
    /\ StartGovernance(input)

StartTerminationIntake(ev) ==
    /\ gStatus = "IDLE"
    /\ rStatus = "IDLE"
    /\ iExecs < 2
    /\ StartIntake(ev)

StartTerminationRefresh(ev) ==
    /\ gStatus = "IDLE"
    /\ iStatus = "IDLE"
    /\ StartRefresh(ev)

\* A transition of a running execution of one of the three workflows.
WorkflowStep ==
    \/ registerS3Location
    \/ grantLfAdminAccess
    \/ grantProducerAccess
    \/ createDatabase
    \/ updateDatabaseOwnerMetadata
    \/ tablesMapTask
    \/ \E i \in 1..MaxTables : createTable(i)
    \/ \E i \in 1..MaxTables : grantTablePermissions(i)
    \/ tablesMapTaskDone
    \/ triggerProducer
    \/ getRamInvitations
    \/ resourceShareInvitationsEmpty
    \/ ramMapTask
    \/ \E i \in 1..MaxInvitations : isInvitationPending(i)
    \/ \E i \in 1..MaxInvitations : acceptRamShare(i)
    \/ \E i \in 1..MaxInvitations : notPendingPass(i)
    \/ ramMapTaskDone
    \/ shareAccepted
    \/ rlMapTask
    \/ \E j \in 1..MaxTables : createResourceLink(j)
    \/ rlMapTaskDone
    \/ finishWorkflow
    \/ initState
    \/ parseEventPayload
    \/ traverseTableArray
    \/ \E b \in 1..MaxTables : traverseTableArrayNext(b)
    \/ \E b \in 1..MaxTables : grantPermissions(b)
    \/ \E b \in 1..MaxTables : createCrawlerForTable(b)
    \/ \E b \in 1..MaxTables : startCrawler(b)
    \/ \E b \in 1..MaxTables : waitForCrawler(b)
    \/ \E b \in 1..MaxTables : getCrawler(b)
    \/ \E b \in 1..MaxTables : checkCrawlerStatusChoice(b)
    \/ \E b \in 1..MaxTables : deleteCrawler(b)
    \/ traverseTableArrayDone

InitTermination ==
    /\ ramInvitations \in TerminationInvitationLists
    /\ resourceLinks = {}
    /\ IntakeIdle
    /\ RegistrationIdle
    /\ GovernanceIdle
    /\ RefreshIdle
    /\ RoutingIdle

NextTermination ==
    \/ \E input \in TerminationInputs : StartTerminationGovernance(input)
    \/ \E ev \in DuplicateEvents : StartTerminationIntake(ev)
    \/ \E ev \in TerminationStatusChangeEvents : StartTerminationRefresh(ev)
    \/ WorkflowStep
    \/ \E name \in CrawlerNames : CrawlerProgress(name)

SpecTermination ==
    InitTermination /\ [][NextTermination]_vars /\ WF_vars(WorkflowStep)

\* Every running branch of the Metadata Refresh execution is in the poll loop.
InPollLoop ==
    /\ rStatus = "RUNNING"
    /\ rInMap
    /\ ActiveIterations # {}
    /\ \A b \in ActiveIterations : rBranch[b].state \in PollLoopStates

\* A workflow has an execution that has not ended.
WorkflowRunning == "RUNNING" \in {gStatus, iStatus, rStatus}

\* The execution has ended, or it is a Metadata Refresh execution in its poll
\* loop.
WorkflowSettled ==
    \/ gStatus \in {"SUCCEEDED", "FAILED"}
    \/ iStatus \in {"SUCCEEDED", "FAILED"}
    \/ rStatus \in {"SUCCEEDED", "FAILED"}
    \/ InPollLoop

\* C31: at most one workflow is observed in a behaviour, and whenever its
\* execution runs it later ends in SUCCEEDED or FAILED, or it is an execution
\* of the Metadata Refresh Workflow and every running branch of it is in the
\* poll loop: an execution of the Governance Workflow or of the Domain Intake
\* Workflow always ends, and an execution that runs for ever is a Metadata
\* Refresh execution that keeps coming back to the poll loop.
C31_Termination ==
    /\ [](Cardinality({w \in 1..3 : <<gStatus, iStatus, rStatus>>[w] # "IDLE"}) <= 1)
    /\ [](WorkflowRunning => <>WorkflowSettled)

C31_Witness ==
    /\ InPollLoop
    /\ PollsMade = MaxPolls
    /\ \A b \in ActiveIterations : NeverReportedReady(b)
    /\ Cardinality(ActiveIterations) = 2

(***************************************************************************)
(* The inbound channel of the data domain: any principal that the bus      *)
(* policy or the account admits may put any event on dataDomainEventBus;   *)
(* DataDomainRule hands the events that match its pattern to the Domain    *)
(* Intake Workflow.                                                        *)
(***************************************************************************)
\* Events that may be put on the bus of the data domain.
AnyInboundEvents ==
    [source : {"com.central.stepfunction", "aws.states"},
     account : {CentralAccId, "333"},
     detailType : {CreateResourceLinksDetailType(d) : d \in DataDomains},
     detail : [database_name : DatabaseNames,
               table_names : {<<"t1">>}]]

\* The events on the bus of the data domain.
InboundBusEvents ==
    {e.event : e \in {x \in domainBus : x.bus = DomainBusArn(AwsAccountId)}}

\* PutEvents on dataDomainEventBus
PutInboundEvent(ev) ==
    /\ UNCHANGED <<intakeVars, regVars, govVars, refreshVars, concVars, trigVars>>
    /\ Cardinality(domainBus) < MaxInboundEvents
    /\ ev \notin InboundBusEvents
    /\ domainBus' = domainBus \cup {[bus |-> DomainBusArn(AwsAccountId), event |-> ev]}
    /\ UNCHANGED <<intakeStarts, routeLog>>

\* The bus evaluates DataDomainRule on an event it holds and starts the
\* target of the rule.
DataDomainRuleTarget(ev) ==
    /\ ev \in InboundBusEvents
    /\ StartIntake(ev)

InitInbound ==
    /\ ramInvitations \in TerminationInvitationLists
    /\ resourceLinks = {}
    /\ IntakeIdle
    /\ RegistrationIdle
    /\ GovernanceIdle
    /\ RefreshIdle
    /\ RoutingIdle

NextInbound ==
    \/ \E ev \in AnyInboundEvents : PutInboundEvent(ev)
    \/ \E ev \in AnyInboundEvents : DataDomainRuleTarget(ev)
    \/ getRamInvitations
    \/ resourceShareInvitationsEmpty
    \/ ramMapTask
    \/ \E i \in 1..MaxInvitations : isInvitationPending(i)
    \/ \E i \in 1..MaxInvitations : acceptRamShare(i)
    \/ \E i \in 1..MaxInvitations : notPendingPass(i)
    \/ ramMapTaskDone
    \/ shareAccepted
    \/ rlMapTask
    \/ \E j \in 1..MaxTables : createResourceLink(j)
    \/ rlMapTaskDone
    \/ finishWorkflow

SpecInbound == InitInbound /\ [][NextInbound]_vars

\* The three fields of the event are those of the completion event that the
\* central account sends to this data domain.
FromCentralForThisDomain(ev) ==
    /\ ev.source = "com.central.stepfunction"
    /\ ev.account = "111"
    /\ ev.detailType = "222_createResourceLinks"

\* C32: an execution of the Domain Intake Workflow starts only with an event
\* that is on the bus of the data domain and whose source is
\* com.central.stepfunction, whose account is the central account and whose
\* detail type is <this account>_createResourceLinks; an event on the bus
\* that differs in one of the three fields cannot start an execution.
C32_OnlyMatchingEventStarts ==
    /\ [][iExecs' # iExecs =>
              /\ iInput' \in InboundBusEvents
              /\ FromCentralForThisDomain(iInput')]_vars
    /\ [](\A ev \in InboundBusEvents :
             ~FromCentralForThisDomain(ev) => ~ENABLED DataDomainRuleTarget(ev))
    /\ [](iStatus # "IDLE" => FromCentralForThisDomain(iInput))

\* An execution was started while the bus also holds events that differ from
\* its event in the account only and in the detail type only.
C32_Witness ==
    /\ iStatus = "SUCCEEDED"
    /\ iExecs = 1
    /\ \E ev \in InboundBusEvents : ev = [iInput EXCEPT !.account = "333"]
    /\ \E ev \in InboundBusEvents : ev = [iInput EXCEPT !.detailType = "333_createResourceLinks"]

(***************************************************************************)
(* End to end: the registration of the data domain, one execution of the   *)
(* Governance Workflow, the Domain Intake execution that its completion    *)
(* event starts in the data domain, and the Metadata Refresh execution     *)
(* that the status change of the Intake execution starts.                  *)
(***************************************************************************)
\* The invitations of the data domain when the central account has shared
\* the data product: all pending, the first of the central account and the
\* others of another account.
HandshakeInvitationLists ==
    {l \in FanOutInvitationLists :
        /\ Len(l) = MaxInvitations
        /\ \A i \in 2..Len(l) : l[i].SenderAccountId # CentralAccId}

\* The invitations of the data domain: none, or those of the handshake.
EndToEndInvitationLists == {<<>>} \cup HandshakeInvitationLists

\* Registrations of a data product of this data domain with as many tables
\* as the Metadata Refresh Workflow crawls concurrently.
EndToEndInputs ==
    {input \in TerminationInputs : Len(input.tables) = MaxConcurrency}

\* The registration of this data domain is deployed once.
RegisterThisDomain(props) ==
    /\ props.dataDomainAccId = AwsAccountId
    /\ regCalls = <<>>
    /\ DataDomainRegistration(props)

StartEndToEndGovernance(input) ==
    /\ gExecs < 1
    /\ StartGovernance(input)

\* DataDomainRule starts one execution for the completion event.
StartEndToEndIntake(ev) ==
    /\ iExecs < 1
    /\ DataDomainRuleTarget(ev)

InitEndToEnd ==
    /\ ramInvitations \in EndToEndInvitationLists
    /\ resourceLinks = {}
    /\ IntakeIdle
    /\ RegistrationIdle
    /\ GovernanceIdle
    /\ RefreshIdle
    /\ RoutingIdle

NextEndToEnd ==
    \/ \E props \in RegistrationProps : RegisterThisDomain(props)
    \/ \E input \in EndToEndInputs : StartEndToEndGovernance(input)
    \/ \E ev \in CompletionEvents \cup InboundEvents : StartEndToEndIntake(ev)
    \/ ExecutionStatusChange
    \/ WorkflowStep
    \/ \E name \in CrawlerNames : CrawlerProgress(name)

SpecEndToEnd == InitEndToEnd /\ [][NextEndToEnd]_vars

\* C33: the target database that a resource link names in the catalog of the
\* central account is the database that the Governance execution created for
\* the registration whose completion event started the Intake execution.
C33_TargetDatabaseIsCatalogDatabase ==
    \A l \in resourceLinks :
        /\ IsPresent(glueDatabases, l.TableInput.TargetTable.DatabaseName)
        /\ l.TableInput.TargetTable.DatabaseName =
              gInput.producer_acc_id \o "_" \o gInput.database_name

\* The resource links that the Intake execution created.
LinksCreatedByIntake ==
    {l \in resourceLinks : \E k \in DOMAIN iLinkCalls : iLinkCalls[k] = l}

\* The (database, table) pair names a resource link of the local catalog that
\* the Intake execution created.
NamesCreatedLink(databaseName, tableName) ==
    \E l \in LinksCreatedByIntake : /\ l.DatabaseName = databaseName
                                     /\ l.TableInput.Name = tableName

\* C34: every table on which the Metadata Refresh execution granted
\* permission or for which it created a crawler is a resource link of the
\* local catalog that the triggering Intake execution created, and a Refresh
\* execution triggered by an Intake execution that made no create-link call
\* grants nothing and creates no crawler.
C34_RefreshOnlyOnCreatedLinks ==
    /\ \A g \in lfTableGrants :
          NamesCreatedLink(g.Resource.Table.DatabaseName, g.Resource.Table.Name)
    /\ \A b \in DOMAIN rBranch :
          IsPresent(crawlers, CrawlerName(rBranch[b].data)) =>
              NamesCreatedLink(rBranch[b].data.databaseName, rBranch[b].data.tableName)
    /\ (rStatus # "IDLE" /\ iLinkCalls = <<>>) =>
          (lfTableGrants = {} /\ crawlers = <<>>)

\* The (database, table) pairs of the iterations of TraverseTableArray.
RefreshPairs ==
    {<<rBranch[b].data.databaseName, rBranch[b].data.tableName>> : b \in DOMAIN rBranch}

\* The (database, link name) pair of a create-resource-link call.
LinkPair(p) == <<p.DatabaseName, p.TableInput.Name>>

\* The pairs that the Intake Workflow passes to createResourceLink for the
\* event: the parameters of forEachRamInvitation, forEachTable and
\* createResourceLink applied to it.
LinkPairsOf(ev) ==
    LET listed == ResultPath(ev, "taskresult",
                      [ResourceShareInvitations |->
                          <<[ResourceShareInvitationArn |-> 1,
                             SenderAccountId |-> ev.account,
                             Status |-> "PENDING"]>>])
        item == RamMapItem(listed, 1)
    IN  {LinkPair(ResourceLinkParameters(RlMapItem(item, j))) :
            j \in DOMAIN ev.detail.table_names}

\* C35: the (database, table) pairs of the iterations of the Metadata Refresh
\* execution are the pairs that the Intake Workflow passes to
\* create-resource-link for the event of the triggering execution, namely
\* the database_name of the event with 'rl-' followed by each table name;
\* every create-resource-link call of the execution passes one of them, and
\* when the execution made its calls the pairs of the calls are the pairs of
\* the Refresh execution.
C35_RefreshPairsAreLinkPairs ==
    /\ rInMap =>
          /\ RefreshPairs = LinkPairsOf(iInput)
          /\ RefreshPairs =
                {<<iInput.detail.database_name, "rl-" \o iInput.detail.table_names[k]>> :
                    k \in DOMAIN iInput.detail.table_names}
    /\ \A k \in DOMAIN iLinkCalls : LinkPair(iLinkCalls[k]) \in LinkPairsOf(iInput)
    /\ (rInMap /\ iLinkCalls # <<>>) =>
          RefreshPairs = {LinkPair(iLinkCalls[k]) : k \in DOMAIN iLinkCalls}

C35_Witness ==
    /\ rInMap
    /\ Len(iLinkCalls) = 2
    /\ Cardinality(RefreshPairs) = 2
    /\ Cardinality(resourceLinks) = 2
    /\ Cardinality(lfTableGrants) = 2
    /\ \E b \in DOMAIN rBranch : IsPresent(crawlers, CrawlerName(rBranch[b].data))

\* The list that the execution read holds invitations and none of them is a
\* pending invitation of the account that sent the event.
NoPendingInvitationListed ==
    /\ iListed.returned
    /\ iListed.list # <<>>
    /\ \A k \in DOMAIN iListed.list :
          ~(/\ iListed.list[k].SenderAccountId = iInput.account
            /\ iListed.list[k].Status = "PENDING")

\* C36: a later execution that finds no pending invitation of the sender,
\* because an earlier execution accepted it, makes no create-resource-link
\* call and, once it has ended, has reached Finish and succeeded.
C36_RedeliveryFinishesWithoutLinks ==
    (iExecs >= 2 /\ NoPendingInvitationListed) =>
        /\ iLinkCalls = <<>>
        /\ iStatus \in {"RUNNING", "SUCCEEDED"}

(***************************************************************************)
(* Registration of a further data domain                                   *)
(***************************************************************************)
\* The statements of the policy of the central bus that admit data domain d.
StatementsOf(d) ==
    {centralBusPolicy[k] : k \in {n \in DOMAIN centralBusPolicy :
                                      centralBusPolicy[n].Principal = d}}

\* The rules of the central bus deployed for data domain d.
RulesOf(d) ==
    {centralBusRules[k] : k \in {n \in DOMAIN centralBusRules :
                                     centralBusRules[n].dataDomainAccId = d}}

\* C37: the registration of a data domain changes neither the statements of
\* the bus policy nor the rules of any other data domain; every registered
\* data domain has a statement that allows it events:PutEvents and a rule;
\* and an event for a registered data domain is delivered to a bus of that
\* domain, also when it was registered before another one.
C37_RegistrationFrame ==
    /\ [][Len(regCalls') > Len(regCalls) =>
              \A d \in DataDomains \ {regCalls'[Len(regCalls')].dataDomainAccId} :
                  /\ StatementsOf(d)' = StatementsOf(d)
                  /\ RulesOf(d)' = RulesOf(d)]_vars
    /\ [](\A d \in RegisteredDomains :
             /\ \E st \in StatementsOf(d) : st.Action = "events:PutEvents"
             /\ RulesOf(d) # {})
    /\ [](\A k \in DOMAIN routeLog :
             routeLog[k].recipient \in routeLog[k].registered =>
                 \E bus \in routeLog[k].delivered :
                     bus \in BusArnsOfAccount(routeLog[k].recipient))

\* Two data domains were registered one after the other and an event for the
\* first was delivered afterwards.
C37_Witness ==
    /\ Len(regCalls) = 2
    /\ regCalls[1].dataDomainAccId # regCalls[2].dataDomainAccId
    /\ Len(centralBusPolicy) = 2
    /\ \E k \in DOMAIN routeLog :
          /\ routeLog[k].recipient = regCalls[1].dataDomainAccId
          /\ routeLog[k].registered = DataDomains
          /\ routeLog[k].delivered # {}

(***************************************************************************)
(* Two concurrent executions of the Metadata Refresh Workflow.  The steps  *)
(* of the workflow are those of the current execution;                     *)
(* SwitchRefreshExecution makes the other execution the current one.  The  *)
(* executions share Glue and Lake Formation only, so they are interleaved  *)
(* at their service calls.                                                 *)
(***************************************************************************)
CurrentRefreshExecution ==
    [id |-> rExec.id, status |-> rStatus, error |-> rError, state |-> rState,
     data |-> rData, inMap |-> rInMap, branch |-> rBranch, polls |-> rPolls,
     deletes |-> rDeletes, trigger |-> rTrigger]

\* A Wait, Pass, Choice or Map transition of the current execution is enabled.
RefreshLocalTransitionEnabled ==
    \/ ENABLED initState
    \/ ENABLED parseEventPayload
    \/ ENABLED traverseTableArray
    \/ \E b \in DOMAIN rBranch : ENABLED traverseTableArrayNext(b)
    \/ \E b \in DOMAIN rBranch : ENABLED waitForCrawler(b)
    \/ \E b \in DOMAIN rBranch : ENABLED checkCrawlerStatusChoice(b)
    \/ ENABLED traverseTableArrayDone

SwitchRefreshExecution ==
    /\ UNCHANGED <<intakeVars, regVars, govVars, routeVars>>
    /\ rStatus = "RUNNING" \/ rExec.parked.status = "RUNNING"
    /\ ~RefreshLocalTransitionEnabled
    /\ rExec' = [id |-> rExec.parked.id, parked |-> CurrentRefreshExecution]
    /\ rStatus' = rExec.parked.status
    /\ rError' = rExec.parked.error
    /\ rState' = rExec.parked.state
    /\ rData' = rExec.parked.data
    /\ rInMap' = rExec.parked.inMap
    /\ rBranch' = rExec.parked.branch
    /\ rPolls' = rExec.parked.polls
    /\ rDeletes' = rExec.parked.deletes
    /\ rTrigger' = rExec.parked.trigger
    /\ UNCHANGED pollRun
    /\ UNCHANGED <<crawlers, lfTableGrants, iParked>>

\* Status change events of Intake executions for one or more tables, without
\* duplicates.
ConcurrentStatusChangeEvents ==
    {ev \in FanOutStatusChangeEvents :
        LET names == StringToJson(ev.detail.input).detail.table_names IN
        /\ Len(names) >= 1
        /\ \A k, l \in DOMAIN names : k # l => names[k] # names[l]}

\* The number of tables of the execution.
TablesOf(e) ==
    IF e.trigger = EmptyObject THEN 0
    ELSE Len(StringToJson(e.trigger.detail.input).detail.table_names)

\* A status change event starts an execution; the two executions crawl
\* together as many tables as one execution crawls at once.
StartConcurrentRefresh(ev) ==
    /\ Len(StringToJson(ev.detail.input).detail.table_names)
          + TablesOf(rExec.parked) <= MaxConcurrency
    /\ StartRefresh(ev)

InitRefreshConcurrent ==
    /\ ramInvitations = <<>>
    /\ resourceLinks = {}
    /\ IntakeIdle
    /\ RegistrationIdle
    /\ GovernanceIdle
    /\ RefreshIdle
    /\ RoutingIdle

NextRefreshConcurrent ==
    \/ \E ev \in ConcurrentStatusChangeEvents : StartConcurrentRefresh(ev)
    \/ SwitchRefreshExecution
    \/ initState
    \/ parseEventPayload
    \/ traverseTableArray
    \/ \E b \in 1..MaxTables : traverseTableArrayNext(b)
    \/ \E b \in 1..MaxTables : grantPermissions(b)
    \/ \E b \in 1..MaxTables : createCrawlerForTable(b)
    \/ \E b \in 1..MaxTables : startCrawler(b)
    \/ \E b \in 1..MaxTables : waitForCrawler(b)
    \/ \E b \in 1..MaxTables : getCrawler(b)
    \/ \E b \in 1..MaxTables : checkCrawlerStatusChoice(b)
    \/ \E b \in 1..MaxTables : deleteCrawler(b)
    \/ traverseTableArrayDone
    \/ \E name \in DOMAIN crawlers : CrawlerProgress(name)

SpecRefreshConcurrent == InitRefreshConcurrent /\ [][NextRefreshConcurrent]_vars

\* The iterations of the two executions: execution id, index, item and state.
RefreshIterations ==
    UNION {{[id |-> e.id, index |-> b, item |-> e.branch[b].data,
             state |-> e.branch[b].state] : b \in DOMAIN e.branch} :
           e \in {CurrentRefreshExecution, rExec.parked}}

\* The crawler name of an iteration: execution id, database and table joined
\* by underscores.
NameOfIteration(x) ==
    x.id \o "_" \o x.item.databaseName \o "_" \o x.item.tableName

\* C38: two iterations that differ in the execution or in the index have
\* different crawler names; a crawler is created and deleted only by the
\* iteration of the current execution whose name it bears, in its create or
\* delete state, and an iteration polls the crawler of its own name; so no
\* execution deletes the crawler of another and two running iterations never
\* work on the same crawler.
C38_CrawlerPerIteration ==
    /\ [](\A x, y \in RefreshIterations :
             (x.id # y.id \/ x.index # y.index) =>
                 NameOfIteration(x) # NameOfIteration(y))
    /\ [][\A name \in DOMAIN crawlers \cup DOMAIN crawlers' :
              IsPresent(crawlers, name) # IsPresent(crawlers', name) =>
                  \E b \in DOMAIN rBranch :
                      /\ name = NameOfIteration([id |-> rExec.id, item |-> rBranch[b].data])
                      /\ rBranch[b].state =
                            IF IsPresent(crawlers, name) THEN "DeleteCrawler"
                                                         ELSE "CreateCrawlerForTable"
                      /\ rBranch'[b].state # rBranch[b].state]_vars
    /\ [](\A name \in DOMAIN crawlers :
             \E x \in RefreshIterations : NameOfIteration(x) = name)
    /\ [](rStatus = "FAILED" => rError # "Glue.AlreadyExistsException")

\* The two executions crawl the same table at the same time, each with its
\* own crawler.
C38_Witness ==
    /\ rStatus = "RUNNING"
    /\ rExec.parked.status = "RUNNING"
    /\ \E x, y \in RefreshIterations :
          /\ x.id # y.id
          /\ x.item.databaseName = y.item.databaseName
          /\ x.item.tableName = y.item.tableName
          /\ x.state = "GetCrawler"
          /\ y.state = "DeleteCrawler"
          /\ IsPresent(crawlers, NameOfIteration(x))
          /\ IsPresent(crawlers, NameOfIteration(y))

(***************************************************************************)
(* The poll loops of DataDomainCrawler and of DataProduct.  The two        *)
(* constructs define the same iterator up to the condition of              *)
(* CheckCrawlerStatusChoice; both loops are run on the states that one     *)
(* started crawler reports to successive getCrawler calls.                 *)
(***************************************************************************)
\* Crawler.State of Glue
CrawlerStates == {"READY", "RUNNING", "STOPPING"}

\* A started crawler runs, then stops, then is ready.
StateRank(state) ==
    CASE state = "RUNNING" -> 1
      [] state = "STOPPING" -> 2
      [] state = "READY" -> 3

\* The states that a started crawler reports to at most MaxPolls polls.
PolledStateSequences ==
    {q \in SeqUpTo(CrawlerStates, MaxPolls) :
        \A k \in 1..(Len(q) - 1) : StateRank(q[k]) <= StateRank(q[k + 1])}

\* DataProduct: Condition.not(Condition.stringEquals(
\* "$.crawlerInfo.Crawler.State", "RUNNING"))
DataProductTerminal(state) == state # "RUNNING"

\* WaitForCrawler, GetCrawler and CheckCrawlerStatusChoice of one construct:
\* the poll reads the next reported state, and the choice goes to
\* DeleteCrawler when the state is terminal for the construct.
PollStep(loop, terminal) ==
    [polls |-> loop.polls + 1,
     deletedAfter |-> IF terminal THEN loop.polls + 1 ELSE 0]

PollDataDomainCrawler ==
    /\ UNCHANGED <<intakeVars, regVars, govVars, refreshVars, concVars, routeVars>>
    /\ pollRun.crawler.deletedAfter = 0
    /\ pollRun.crawler.polls < Len(pollRun.states)
    /\ pollRun' = [pollRun EXCEPT !.crawler =
                      PollStep(@, CrawlerReady(pollRun.states[@.polls + 1]))]
    /\ UNCHANGED rTrigger

PollDataProduct ==
    /\ UNCHANGED <<intakeVars, regVars, govVars, refreshVars, concVars, routeVars>>
    /\ pollRun.product.deletedAfter = 0
    /\ pollRun.product.polls < Len(pollRun.states)
    /\ pollRun' = [pollRun EXCEPT !.product =
                      PollStep(@, DataProductTerminal(pollRun.states[@.polls + 1]))]
    /\ UNCHANGED rTrigger

InitPollPolicy ==
    /\ ramInvitations = <<>>
    /\ resourceLinks = {}
    /\ IntakeIdle
    /\ RegistrationIdle
    /\ GovernanceIdle
    /\ RefreshExecutionsIdle
    /\ RoutingIdle
    /\ pollRun \in {PollRunOf(q) : q \in PolledStateSequences}

NextPollPolicy ==
    \/ PollDataDomainCrawler
    \/ PollDataProduct

SpecPollPolicy == InitPollPolicy /\ [][NextPollPolicy]_vars

\* The loop has deleted the crawler or has read every reported state.
LoopAtEnd(loop) == loop.deletedAfter # 0 \/ loop.polls = Len(pollRun.states)

\* C39: on the same reported states the two loops make the same number of
\* polls and delete the crawler after the same poll, and neither deletes a
\* crawler after a poll that did not report READY.
C39_PoliciesEquivalent ==
    /\ (LoopAtEnd(pollRun.crawler) /\ LoopAtEnd(pollRun.product)) =>
          pollRun.crawler = pollRun.product
    /\ \A loop \in {pollRun.crawler, pollRun.product} :
          loop.deletedAfter # 0 => pollRun.states[loop.deletedAfter] = "READY"

(***************************************************************************)
(* End to end with fairness.  A running execution takes its next           *)
(* transition, EventBridge delivers an event that a rule matches to the    *)
(* target of the rule, Step Functions publishes the status change of an    *)
(* execution, and Glue runs a started crawler to its end.                  *)
(***************************************************************************)
InitHandshake ==
    /\ ramInvitations \in HandshakeInvitationLists
    /\ resourceLinks = {}
    /\ IntakeIdle
    /\ RegistrationIdle
    /\ GovernanceIdle
    /\ RefreshIdle
    /\ RoutingIdle

SpecEndToEndFair ==
    /\ InitHandshake
    /\ [][NextEndToEnd]_vars
    /\ WF_vars(WorkflowStep)
    /\ WF_vars(\E ev \in CompletionEvents \cup InboundEvents : StartEndToEndIntake(ev))
    /\ WF_vars(ExecutionStatusChange)
    /\ WF_vars(\E name \in CrawlerNames : CrawlerProgress(name))

\* The registration of this data domain forwards its completion events to
\* its bus.
HandshakeExists ==
    \E k \in DOMAIN centralBusRules :
        /\ centralBusRules[k].dataDomainAccId = AwsAccountId
        /\ centralBusRules[k].target = DomainBusArn(AwsAccountId)

\* The data domain lists exactly one pending invitation of the central
\* account.
OnePendingInvitation ==
    Cardinality({i \in DOMAIN ramInvitations :
                    /\ ramInvitations[i].SenderAccountId = CentralAccId
                    /\ ramInvitations[i].Status = "PENDING"}) = 1

\* An external call of one of the executions failed, or the accept call did
\* not return ACCEPTED.
ExternalCallFailed ==
    \/ "FAILED" \in {gStatus, iStatus, rStatus}
    \/ \E arn \in DOMAIN iAcceptResp : iAcceptResp[arn] # "ACCEPTED"

\* The Intake execution succeeded and created a link for every table of the
\* registration, and the Refresh execution succeeded and every crawler it
\* created is deleted.
EndToEndDone ==
    /\ gStatus = "SUCCEEDED"
    /\ iStatus = "SUCCEEDED"
    /\ \A k \in DOMAIN gInput.tables :
          NamesCreatedLink(gInput.database_name, "rl-" \o gInput.tables[k].name)
    /\ rStatus = "SUCCEEDED"
    /\ crawlers = <<>>
    /\ \A b \in DOMAIN gInput.tables : b \in DOMAIN rDeletes /\ rDeletes[b] = 1

\* C40: when a Governance execution runs while the registration of the data
\* domain is deployed and the domain lists exactly one pending invitation of
\* the central account, then, unless an external call fails or the polls of
\* the Refresh execution reach MaxPolls, the Intake execution succeeds with a
\* link for every table and the Refresh execution succeeds with every
\* crawler deleted.
C40_EndToEnd ==
    (gStatus = "RUNNING" /\ HandshakeExists /\ OnePendingInvitation)
        ~> (ExternalCallFailed \/ (rStatus = "RUNNING" /\ PollsMade = MaxPolls)
              \/ EndToEndDone)

C40_Witness == EndToEndDone /\ HandshakeExists

====
